---- MODULE Spec2Model ----
(***************************************************************************)
(* Roadmap editor: the canonical RoadmapData record held by EditorCanvas,  *)
(* the path-addressed edit (handleEdit), the two projections (PillarView,  *)
(* TimelineView.timeframesWithPillars) and the colour assignment           *)
(* (getPillarColor).                                                       *)
(*                                                                         *)
(* JavaScript objects and arrays are modelled on an explicit heap: every   *)
(* object has an address, fields that hold objects hold addresses, so that *)
(* aliasing between two records and in-place mutation are observable.      *)
(***************************************************************************)
EXTENDS Naturals, Sequences, FiniteSets, TLC

VARIABLES
  heap,       \* address -> object: every live JavaScript object
  localData,  \* EditorCanvas state: address of the record being shown
  prevData,   \* address of the record the last handleEdit call was given
  prevJson,   \* what that record held when the call was made
  lastEdit,   \* arguments of the last handleEdit call, and how often in a row
  edits,      \* how many handleEdit calls were made
  colorCall,  \* arguments at a call site of getPillarColor: pillar id and index
  colorRet,   \* what that call returned
  startJson,  \* what the record the editor was constructed with held
  parse,      \* one call of parseRoadmapText: the reply it reads, what it did with it
  app,        \* App state: roadmapData, sourceText, isLoading, error
  queue,      \* EditorCanvas: the updaters given to setLocalData, not yet rendered
  cell,       \* one EditableDeliverable: its props, state and pending updates
  form,       \* the form App: its roadmapData
  canvas      \* EditorCanvas state: viewMode

vars == <<heap, localData, prevData, prevJson, lastEdit, edits, colorCall, colorRet,
          startJson, parse, app, queue, cell, form, canvas>>

(***************************************************************************)
(* Bounds of the model.                                                    *)
(***************************************************************************)
MaxPillars == 2       \* pillars of a record
MaxTimeframes == 2    \* timeframes of a record
MaxGroups == 2        \* DeliverableGroups of a timeframe, and of an initial record
MaxTasks == 2         \* tasks of a DeliverableGroup
MaxTotalTasks == 3    \* tasks of an initial record
MaxEdits == 2         \* handleEdit calls in one run
MaxColorIndex == 60   \* pillar indexes getPillarColor is called with
MaxCycles == 3        \* palette periods compared
MaxCommits == 2       \* edits committed in one run of the queued editor
MaxParses == 2        \* parse attempts in one session

PillarIdSeq == <<"p1", "p2", "p3", "p4">>
PillarNameSeq == <<"Core", "Cloud", "Observability", "GenAI">>
TimeframeIdSeq == <<"t1", "t2", "t3", "t4">>
TaskTextSeq == <<"A", "B", "C", "D">>
NewTexts == {"N"}

\* what an edit may name: the ids a record of the model can hold (a record
\* with fewer timeframes or groups lacks some), the indexes a group can hold
EditTimeframeIds == {TimeframeIdSeq[i] : i \in 1..MaxTimeframes}
EditPillarIds == {PillarIdSeq[i] : i \in 1..MaxPillars}
EditTaskIndexes == 0..(MaxTasks - 1)

(***************************************************************************)
(* Addresses and the heap. An address is a number; Addr lays the objects   *)
(* of one generation (one JSON.parse, one construction) out apart.         *)
(***************************************************************************)
Kinds == <<"root", "pillars", "timeframes", "pillar", "timeframe", "deliverables", "group", "tasks">>
KindNo(kind) == CHOOSE n \in DOMAIN Kinds : Kinds[n] = kind
Stride == MaxPillars + MaxTimeframes + MaxGroups + MaxTasks + Len(Kinds)

Addr(g, kind, j, k) == ((g * (Len(Kinds) + 1) + KindNo(kind)) * Stride + j) * Stride + k
GenOf(a) == a \div ((Len(Kinds) + 1) * Stride * Stride)
NullAddr == 0

Undefined == 0  \* the index standing for Array.prototype.find's undefined

\* the least element of a non-empty set of naturals
Least(S) == CHOOSE i \in S : \A j \in S : i <= j

\* Array.prototype.find, given the indexes of the items that pass its test:
\* the index of the first of them, Undefined if none passes
FindIndex(passing) == IF passing = {} THEN Undefined ELSE Least(passing)

\* arr[i] !== undefined, for a JavaScript index i (0-based)
Defined(items, i) == (i + 1) \in DOMAIN items

Items(h, arr) == h[arr].items

(***************************************************************************)
(* JSON.stringify and JSON.parse of a RoadmapData. The text is modelled by *)
(* the value it denotes: nested records and sequences holding no address.  *)
(***************************************************************************)
StringifyGroup(h, a) ==
  [pillarId |-> h[a].pillarId, tasks |-> Items(h, h[a].tasks)]

StringifyTimeframe(h, a) ==
  LET D == Items(h, h[a].deliverables)
  IN [id |-> h[a].id, date |-> h[a].date, name |-> h[a].name,
      deliverables |-> [k \in DOMAIN D |-> StringifyGroup(h, D[k])]]

StringifyPillar(h, a) == [id |-> h[a].id, name |-> h[a].name]

Stringify(h, a) ==
  LET P == Items(h, h[a].pillars)
      T == Items(h, h[a].timeframes)
  IN [title |-> h[a].title, subtitle |-> h[a].subtitle,
      pillars |-> [i \in DOMAIN P |-> StringifyPillar(h, P[i])],
      timeframes |-> [j \in DOMAIN T |-> StringifyTimeframe(h, T[j])]]

\* the objects JSON.parse builds for the value v, all new, as generation g
ParseJSON(v, g) ==
  LET P == v.pillars
      T == v.timeframes
      top == (Addr(g, "root", 0, 0) :>
                [type |-> "RoadmapData", title |-> v.title, subtitle |-> v.subtitle,
                 pillars |-> Addr(g, "pillars", 0, 0),
                 timeframes |-> Addr(g, "timeframes", 0, 0)])
             @@ (Addr(g, "pillars", 0, 0) :>
                [type |-> "Array", items |-> [i \in DOMAIN P |-> Addr(g, "pillar", i, 0)]])
             @@ (Addr(g, "timeframes", 0, 0) :>
                [type |-> "Array", items |-> [j \in DOMAIN T |-> Addr(g, "timeframe", j, 0)]])
      pillars == [a \in {Addr(g, "pillar", i, 0) : i \in DOMAIN P} |->
                   LET i == CHOOSE i \in DOMAIN P : a = Addr(g, "pillar", i, 0)
                   IN [type |-> "Pillar", id |-> P[i].id, name |-> P[i].name]]
      timeframes == [a \in {Addr(g, "timeframe", j, 0) : j \in DOMAIN T} |->
                   LET j == CHOOSE j \in DOMAIN T : a = Addr(g, "timeframe", j, 0)
                   IN [type |-> "Timeframe", id |-> T[j].id, date |-> T[j].date,
                       name |-> T[j].name, deliverables |-> Addr(g, "deliverables", j, 0)]]
      deliverables == [a \in {Addr(g, "deliverables", j, 0) : j \in DOMAIN T} |->
                   LET j == CHOOSE j \in DOMAIN T : a = Addr(g, "deliverables", j, 0)
                   IN [type |-> "Array",
                       items |-> [k \in DOMAIN T[j].deliverables |-> Addr(g, "group", j, k)]]]
      JK == UNION {{<<j, k>> : k \in DOMAIN T[j].deliverables} : j \in DOMAIN T}
      groups == [a \in {Addr(g, "group", jk[1], jk[2]) : jk \in JK} |->
                   LET jk == CHOOSE jk \in JK : a = Addr(g, "group", jk[1], jk[2])
                   IN [type |-> "DeliverableGroup",
                       pillarId |-> T[jk[1]].deliverables[jk[2]].pillarId,
                       tasks |-> Addr(g, "tasks", jk[1], jk[2])]]
      tasks == [a \in {Addr(g, "tasks", jk[1], jk[2]) : jk \in JK} |->
                   LET jk == CHOOSE jk \in JK : a = Addr(g, "tasks", jk[1], jk[2])
                   IN [type |-> "Array", items |-> T[jk[1]].deliverables[jk[2]].tasks]]
  IN top @@ pillars @@ timeframes @@ deliverables @@ groups @@ tasks

\* every object reachable from the record at r
Reach(h, r) ==
  IF r = NullAddr THEN {}
  ELSE LET P == Items(h, h[r].pillars)
           T == Items(h, h[r].timeframes)
           G == UNION {{Items(h, h[T[j]].deliverables)[k] :
                          k \in DOMAIN Items(h, h[T[j]].deliverables)} : j \in DOMAIN T}
       IN {r, h[r].pillars, h[r].timeframes}
          \cup {P[i] : i \in DOMAIN P}
          \cup {T[j] : j \in DOMAIN T}
          \cup {h[T[j]].deliverables : j \in DOMAIN T}
          \cup G
          \cup {h[a].tasks : a \in G}

\* the heap once the objects no root reaches are collected
Collect(h, roots) ==
  LET live == UNION {Reach(h, r) : r \in roots}
  IN [a \in live |-> h[a]]

\* a generation no live object belongs to
FreshGen(h) ==
  LET used == {GenOf(a) : a \in DOMAIN h}
  IN Least((0..Cardinality(used)) \ used)

(***************************************************************************)
(* EditorCanvas.handleEdit: the updater passed to setLocalData.            *)
(***************************************************************************)

\* a slip: const newData = {...prevData}, a new record object that shares
\* the arrays of the old one
ShallowCopy(h, prev) ==
  LET g == FreshGen(h)
  IN [heap |-> (Addr(g, "root", 0, 0) :> h[prev]) @@ h, ret |-> Addr(g, "root", 0, 0)]

\* const newData = JSON.parse(JSON.stringify(prevData)): the heap with the
\* copy's objects added, and the copy's address
DeepCopy(h, prev) ==
  LET g == FreshGen(h)
  IN [heap |-> ParseJSON(Stringify(h, prev), g) @@ h, ret |-> Addr(g, "root", 0, 0)]

\* a slip: find(...) || newData.timeframes[0], falling back to the first timeframe
FindTimeframeOrFirst(h, data, timeframeId) ==
  LET T == Items(h, h[data].timeframes)
      ti == FindIndex({i \in DOMAIN T : h[T[i]].id = timeframeId})
  IN IF ti = Undefined /\ Len(Items(h, h[data].timeframes)) > 0 THEN 1 ELSE ti

\* newData.timeframes.find(t => t.id === timeframeId), as an index
FindTimeframe(h, data, timeframeId) ==
  LET T == Items(h, h[data].timeframes)
  IN FindIndex({i \in DOMAIN T : h[T[i]].id = timeframeId})

\* a slip: find(d => d.id === pillarId), a property no group has
FindDeliverableById(h, timeframe, pillarId) ==
  LET D == Items(h, h[timeframe].deliverables)
  IN FindIndex({i \in DOMAIN D : FALSE})

\* timeframe.deliverables.find(d => d.pillarId === pillarId), as an index
FindDeliverable(h, timeframe, pillarId) ==
  LET D == Items(h, h[timeframe].deliverables)
  IN FindIndex({i \in DOMAIN D : h[D[i]].pillarId = pillarId})

\* a slip: timeframe.deliverables.unshift(deliverable)
UnshiftDeliverable(h, timeframe, pillarId, group, tasks) ==
  LET darr == h[timeframe].deliverables
  IN (group :> [type |-> "DeliverableGroup", pillarId |-> pillarId, tasks |-> tasks])
     @@ (tasks :> [type |-> "Array", items |-> <<>>])
     @@ [h EXCEPT ![darr].items = <<group>> \o @]

\* deliverable = {pillarId, tasks: []}; timeframe.deliverables.push(deliverable)
\* (two new objects, at the addresses group and tasks, which nothing holds yet)
PushDeliverable(h, timeframe, pillarId, group, tasks) ==
  LET darr == h[timeframe].deliverables
  IN (group :> [type |-> "DeliverableGroup", pillarId |-> pillarId, tasks |-> tasks])
     @@ (tasks :> [type |-> "Array", items |-> <<>>])
     @@ [h EXCEPT ![darr].items = Append(@, group)]

\* a slip: deliverable.tasks[taskIndex] = newText without the test, which
\* grows the array when taskIndex is its length
WriteTaskUnchecked(h, deliverable, taskIndex, newText) ==
  LET tasks == h[deliverable].tasks
  IN IF Defined(Items(h, tasks), taskIndex)
     THEN [h EXCEPT ![tasks].items[taskIndex + 1] = newText]
     ELSE IF taskIndex = Len(Items(h, tasks))
     THEN [h EXCEPT ![tasks].items = Append(@, newText)]
     ELSE h

\* if (deliverable.tasks[taskIndex] !== undefined) deliverable.tasks[taskIndex] = newText
WriteTask(h, deliverable, taskIndex, newText) ==
  LET tasks == h[deliverable].tasks
  IN IF Defined(Items(h, tasks), taskIndex)
     THEN [h EXCEPT ![tasks].items[taskIndex + 1] = newText]
     ELSE h

\* the updater: the heap it leaves and the record it returns
handleEdit(h, prev, timeframeId, pillarId, taskIndex, newText) ==
  LET copy == DeepCopy(h, prev)
      h1 == copy.heap
      newData == copy.ret
      ti == FindTimeframe(h1, newData, timeframeId)
  IN IF ti = Undefined
     THEN [heap |-> h1, ret |-> newData]
     ELSE LET timeframe == Items(h1, h1[newData].timeframes)[ti]
              D == Items(h1, h1[timeframe].deliverables)
              di == FindDeliverable(h1, timeframe, pillarId)
              group == Addr(GenOf(newData), "group", ti, Len(D) + 1)
              tasks == Addr(GenOf(newData), "tasks", ti, Len(D) + 1)
              h2 == IF di = Undefined
                    THEN PushDeliverable(h1, timeframe, pillarId, group, tasks)
                    ELSE h1
              deliverable == IF di = Undefined THEN group ELSE D[di]
          IN [heap |-> WriteTask(h2, deliverable, taskIndex, newText), ret |-> newData]

(***************************************************************************)
(* getPillarColor and the two views.                                       *)
(***************************************************************************)
PILLAR_COLORS ==
  ("p1" :> [border |-> "border-blue-400", bg |-> "bg-blue-900/50", dot |-> "bg-blue-400"])
  @@ ("p2" :> [border |-> "border-green-400", bg |-> "bg-green-900/50", dot |-> "bg-green-400"])
  @@ ("p3" :> [border |-> "border-pink-400", bg |-> "bg-pink-900/50", dot |-> "bg-pink-400"])
  @@ ("p4" :> [border |-> "border-orange-400", bg |-> "bg-orange-900/50", dot |-> "bg-orange-400"])
  @@ ("p5" :> [border |-> "border-indigo-400", bg |-> "bg-indigo-900/50", dot |-> "bg-indigo-400"])
  @@ ("p6" :> [border |-> "border-teal-400", bg |-> "bg-teal-900/50", dot |-> "bg-teal-400"])

NoColor == [border |-> "", bg |-> "", dot |-> ""]
\* what PILLAR_COLORS[key] is for a key the object does not have
UndefinedColor == [border |-> "undefined", bg |-> "undefined", dot |-> "undefined"]

\* PILLAR_COLORS[key]
ColorAt(key) == IF key \in DOMAIN PILLAR_COLORS THEN PILLAR_COLORS[key] ELSE UndefinedColor

\* a slip: const key = `p${index + 1}`, without the wrap-around
getPillarColorNoWrap(index) ==
  ColorAt("p" \o ToString(index + 1))

\* const key = `p${(index % Object.keys(PILLAR_COLORS).length) + 1}`; return PILLAR_COLORS[key]
getPillarColor(index) ==
  ColorAt("p" \o ToString((index % Cardinality(DOMAIN PILLAR_COLORS)) + 1))

\* data.pillars.map((pillar, index) => ... getPillarColor(index) ...): the
\* colour of the pillar's header in the pillar view
HeaderColor(pillarId, index) == getPillarColor(index)

NullBlock == [timeframe |-> NullAddr, tasks |-> NullAddr]
NullEntry == [pillar |-> NullAddr, tasks |-> NullAddr, color |-> NoColor]

\* PillarView: timeframe.deliverables.find(d => d.pillarId === pillar.id), as an index
PillarDeliverables(h, timeframe, pillar) ==
  LET D == Items(h, h[timeframe].deliverables)
  IN FindIndex({i \in DOMAIN D : h[D[i]].pillarId = h[pillar].id})

\* PillarView, the callback of data.timeframes.map for one pillar: null, or
\* the block of that timeframe (its heading and the tasks array it lists)
PillarBlock(h, pillar, timeframe) ==
  LET di == PillarDeliverables(h, timeframe, pillar)
      pillarDeliverables == Items(h, h[timeframe].deliverables)[di]
  IN IF di = Undefined \/ Len(Items(h, h[pillarDeliverables].tasks)) = 0
     THEN NullBlock
     ELSE [timeframe |-> timeframe, tasks |-> h[pillarDeliverables].tasks]

\* PillarView: one column per pillar, holding the blocks React renders (a
\* null child renders nothing)
PillarView(h, data) ==
  LET P == Items(h, h[data].pillars)
      T == Items(h, h[data].timeframes)
  IN [i \in DOMAIN P |->
       [pillar |-> P[i],
        color |-> HeaderColor(h[P[i]].id, i - 1),
        blocks |-> SelectSeq([j \in DOMAIN T |-> PillarBlock(h, P[i], T[j])],
                             LAMBDA b : b # NullBlock)]]

\* a slip: timeframe.deliverables.findLast(d => d.pillarId === pillar.id)
TimelineDeliverablesLast(h, timeframe, pillar) ==
  LET items == Items(h, h[timeframe].deliverables)
      S == {i \in DOMAIN items : h[items[i]].pillarId = h[pillar].id}
  IN IF S = {} THEN Undefined ELSE CHOOSE i \in S : \A j \in S : j <= i

\* TimelineView: timeframe.deliverables.find(d => d.pillarId === pillar.id), as an index
TimelineDeliverables(h, timeframe, pillar) ==
  LET D == Items(h, h[timeframe].deliverables)
  IN FindIndex({i \in DOMAIN D : h[D[i]].pillarId = h[pillar].id})

\* TimelineView, the callback of data.pillars.map for one timeframe: null, or
\* {pillar, tasks, color}; index is the pillar's index in data.pillars
TimelineEntry(h, timeframe, pillar, index) ==
  LET di == TimelineDeliverables(h, timeframe, pillar)
      pillarDeliverables == Items(h, h[timeframe].deliverables)[di]
  IN IF di = Undefined \/ Len(Items(h, h[pillarDeliverables].tasks)) = 0
     THEN NullEntry
     ELSE [pillar |-> pillar, tasks |-> h[pillarDeliverables].tasks,
           color |-> getPillarColor(index)]

\* a slip: timeframe.deliverables.map(d => ...) with the pillar looked up by
\* d.pillarId, which lists the entries in the order the timeframe declares them
deliverablesInDeclaredOrder(h, data, timeframe) ==
  LET P == Items(h, h[data].pillars)
      D == Items(h, h[timeframe].deliverables)
      Entry(d) ==
        LET i == FindIndex({n \in DOMAIN P : h[P[n]].id = h[d].pillarId})
        IN IF i = Undefined \/ Len(Items(h, h[d].tasks)) = 0
           THEN NullEntry
           ELSE [pillar |-> P[i], tasks |-> h[d].tasks, color |-> getPillarColor(i - 1)]
  IN SelectSeq([k \in DOMAIN D |-> Entry(D[k])], LAMBDA e : e # NullEntry)

\* a slip: .filter(...) before .map((pillar, index) => ...), so that index is
\* the position among the pillars that are kept
deliverablesByKeptPillar(h, data, timeframe) ==
  LET P == Items(h, h[data].pillars)
      kept == SelectSeq([i \in DOMAIN P |-> TimelineEntry(h, timeframe, P[i], i - 1)],
                        LAMBDA e : e # NullEntry)
  IN [k \in DOMAIN kept |-> [kept[k] EXCEPT !.color = getPillarColor(k - 1)]]

\* .filter(p => p !== null) over the entries of one timeframe
deliverablesByPillar(h, data, timeframe) ==
  LET P == Items(h, h[data].pillars)
  IN SelectSeq([i \in DOMAIN P |-> TimelineEntry(h, timeframe, P[i], i - 1)],
               LAMBDA e : e # NullEntry)

\* TimelineView.timeframesWithPillars: {...timeframe, deliverablesByPillar}
\* for each timeframe
timeframesWithPillars(h, data) ==
  LET T == Items(h, h[data].timeframes)
  IN [j \in DOMAIN T |->
       [id |-> h[T[j]].id, date |-> h[T[j]].date, name |-> h[T[j]].name,
        deliverables |-> h[T[j]].deliverables,
        deliverablesByPillar |-> deliverablesByPillar(h, data, T[j])]]

(***************************************************************************)
(* The records the editor may be constructed with (its data prop): what    *)
(* the parse accepted. Timeframe ids are distinct; pillars may come in any *)
(* order of their ids and may share an id; a timeframe may hold several    *)
(* groups for one pillarId, empty groups, and groups for a pillarId that   *)
(* no pillar has.                                                          *)
(***************************************************************************)
PillarLists ==
  UNION {{[i \in 1..n |-> [id |-> ids[i], name |-> PillarNameSeq[i]]] :
            ids \in [1..n -> EditPillarIds]} :
         n \in 0..MaxPillars}

InitTasks(n) == [i \in 1..n |-> TaskTextSeq[i]]

Min(a, b) == IF a < b THEN a ELSE b

\* the deliverables lists of at most g groups holding at most k tasks
RECURSIVE DeliverableLists(_, _)
DeliverableLists(g, k) ==
  {<<>>} \cup
  (IF g = 0 THEN {}
   ELSE UNION {{<<[pillarId |-> p, tasks |-> InitTasks(n)]>> \o rest :
                  rest \in DeliverableLists(g - 1, k - n)} :
                 p \in EditPillarIds, n \in 0..Min(k, MaxTasks)})

RECURSIVE TaskCount(_)
TaskCount(d) == IF d = <<>> THEN 0 ELSE Len(Head(d).tasks) + TaskCount(Tail(d))

\* the deliverables of n timeframes: at most g groups and k tasks in all
RECURSIVE DeliverableSeqs(_, _, _)
DeliverableSeqs(n, g, k) ==
  IF n = 0 THEN {<<>>}
  ELSE UNION {{<<d>> \o rest : rest \in DeliverableSeqs(n - 1, g - Len(d), k - TaskCount(d))} :
                d \in DeliverableLists(g, k)}

TimeframeLists ==
  UNION {{[j \in 1..n |-> [id |-> TimeframeIdSeq[j], date |-> "2025", name |-> "Build-out",
                           deliverables |-> ds[j]]] :
            ds \in DeliverableSeqs(n, MaxGroups, MaxTotalTasks)} :
         n \in 0..MaxTimeframes}

InitialRecords ==
  {[title |-> "Roadmap", subtitle |-> "Deliverables", pillars |-> P, timeframes |-> T] :
     P \in PillarLists, T \in TimeframeLists}

(***************************************************************************)
(* The editor as a state machine.                                          *)
(***************************************************************************)
NoEdit == [timeframeId |-> "", pillarId |-> "", taskIndex |-> 0, newText |-> "", times |-> 0]
NoCall == [index |-> 0, pillarId |-> "", called |-> FALSE]
NoJson == [title |-> "", subtitle |-> "", pillars |-> <<>>, timeframes |-> <<>>]

\* the components a specification leaves out stay as these
NoParse == [called |-> FALSE]
NoApp == [mounted |-> FALSE]
NoQueue == <<>>
NoCell == [mounted |-> FALSE]
NoForm == [mounted |-> FALSE]
NoCanvas == [mounted |-> FALSE]

\* const [localData, setLocalData] = useState(data)
Init ==
  /\ \E v \in InitialRecords : heap = ParseJSON(v, 0) /\ startJson = v
  /\ localData = Addr(0, "root", 0, 0)
  /\ prevData = NullAddr
  /\ prevJson = NoJson
  /\ lastEdit = NoEdit
  /\ edits = 0
  /\ colorCall = NoCall
  /\ colorRet = NoColor
  /\ parse = NoParse /\ app = NoApp /\ queue = NoQueue /\ cell = NoCell /\ form = NoForm /\ canvas = NoCanvas

\* onEdit(timeframeId, pillarId, taskIndex, newText): setLocalData(updater).
\* The record the updater is given stays held by the render it came from;
\* the one before it is released.
HandleEdit(timeframeId, pillarId, taskIndex, newText) ==
  LET r == handleEdit(Collect(heap, {localData}), localData,
                      timeframeId, pillarId, taskIndex, newText)
      same == /\ lastEdit.times > 0
              /\ lastEdit.timeframeId = timeframeId
              /\ lastEdit.pillarId = pillarId
              /\ lastEdit.taskIndex = taskIndex
              /\ lastEdit.newText = newText
  IN /\ edits < MaxEdits
     /\ edits' = edits + 1
     /\ heap' = Collect(r.heap, {localData, r.ret})
     /\ localData' = r.ret
     /\ prevData' = localData
     /\ prevJson' = Stringify(heap, localData)
     /\ lastEdit' = [timeframeId |-> timeframeId, pillarId |-> pillarId,
                     taskIndex |-> taskIndex, newText |-> newText,
                     times |-> IF same THEN 2 ELSE 1]
     /\ UNCHANGED <<colorCall, colorRet, startJson, parse, app, queue, cell, form, canvas>>

Next ==
  \E timeframeId \in EditTimeframeIds, pillarId \in EditPillarIds,
     taskIndex \in EditTaskIndexes, newText \in NewTexts :
    HandleEdit(timeframeId, pillarId, taskIndex, newText)

Spec == Init /\ [][Next]_vars

(***************************************************************************)
(* getPillarColor on its own: a pillar header asks for its colour.         *)
(***************************************************************************)
InitColor ==
  /\ heap = <<>>
  /\ localData = NullAddr
  /\ prevData = NullAddr
  /\ prevJson = NoJson
  /\ lastEdit = NoEdit
  /\ edits = 0
  /\ \E index \in 0..MaxColorIndex, pillarId \in EditPillarIds :
       colorCall = [index |-> index, pillarId |-> pillarId, called |-> FALSE]
  /\ colorRet = NoColor
  /\ startJson = NoJson
  /\ parse = NoParse /\ app = NoApp /\ queue = NoQueue /\ cell = NoCell /\ form = NoForm /\ canvas = NoCanvas

CallGetPillarColor ==
  /\ ~colorCall.called
  /\ colorCall' = [colorCall EXCEPT !.called = TRUE]
  /\ colorRet' = HeaderColor(colorCall.pillarId, colorCall.index)
  /\ UNCHANGED <<heap, localData, prevData, prevJson, lastEdit, edits>>
  /\ UNCHANGED <<startJson, parse, app, queue, cell, form, canvas>>

NextColor == CallGetPillarColor

SpecColor == InitColor /\ [][NextColor]_vars

(***************************************************************************)
(* What the properties below read from a state.                            *)
(***************************************************************************)
Range(f) == {f[x] : x \in DOMAIN f}

\* the first of a set of positions in a list, 0 if the set is empty
FirstMatch(S) ==
  IF S = {} THEN 0 ELSE CHOOSE i \in S : \A i2 \in 1..(i - 1) : i2 \notin S

\* the record now shown, and the record the last edit was applied to, as values
Shown == Stringify(heap, localData)
Edited == edits > 0

\* where the last edit's address leads in the record it was applied to:
\* the first timeframe with the id, its first group with the pillarId
TargetTimeframe ==
  FirstMatch({j \in DOMAIN prevJson.timeframes : prevJson.timeframes[j].id = lastEdit.timeframeId})
TargetGroup ==
  IF TargetTimeframe = 0 THEN 0
  ELSE LET D == prevJson.timeframes[TargetTimeframe].deliverables
       IN FirstMatch({k \in DOMAIN D : D[k].pillarId = lastEdit.pillarId})
TargetTasks ==
  IF TargetGroup = 0 THEN <<>>
  ELSE prevJson.timeframes[TargetTimeframe].deliverables[TargetGroup].tasks
TargetTaskExists == TargetGroup # 0 /\ lastEdit.taskIndex + 1 <= Len(TargetTasks)

\* the returned record is a copy: another object, sharing no object with
\* the record the edit was applied to, which holds what it held
DistinctCopy ==
  /\ localData # prevData
  /\ Reach(heap, localData) \cap Reach(heap, prevData) = {}
  /\ Stringify(heap, prevData) = prevJson

\* the record the edit was applied to, with an empty group for the edit's
\* pillarId appended to the timeframe the edit names
WithNewGroup ==
  [prevJson EXCEPT !.timeframes[TargetTimeframe].deliverables =
     Append(@, [pillarId |-> lastEdit.pillarId, tasks |-> <<>>])]

(***************************************************************************)
(* C1. An edit whose timeframe, DeliverableGroup and task index all exist  *)
(* changes only tasks[taskIndex] of that group, to newText: title,         *)
(* subtitle, every pillar, every timeframe field and every other task are  *)
(* as in the input; the result is a distinct object sharing no structure   *)
(* with the input, and the input is unchanged.                             *)
(***************************************************************************)
C1_EditChangesOnlyTheTask ==
  (Edited /\ TargetTaskExists) =>
    /\ Shown = [prevJson EXCEPT
                  !.timeframes[TargetTimeframe].deliverables[TargetGroup].tasks[lastEdit.taskIndex + 1] =
                     lastEdit.newText]
    /\ DistinctCopy

\* an edit has overwritten one of two tasks of a group, in a record of two
\* timeframes that both hold tasks
C1_Witness ==
  /\ Edited /\ TargetTaskExists
  /\ Len(TargetTasks) = 2
  /\ TargetTasks[lastEdit.taskIndex + 1] # lastEdit.newText
  /\ Len(prevJson.timeframes) = 2
  /\ \A j \in DOMAIN prevJson.timeframes : TaskCount(prevJson.timeframes[j].deliverables) > 0

(***************************************************************************)
(* C2. An edit whose timeframe exists and whose pillarId has no group in   *)
(* that timeframe appends exactly one group {pillarId, tasks: []} at the   *)
(* end of that timeframe's deliverables; newText is dropped whatever the   *)
(* taskIndex.                                                              *)
(***************************************************************************)
C2_MissingGroupIsAppendedEmpty ==
  (Edited /\ TargetTimeframe # 0 /\ TargetGroup = 0) => Shown = WithNewGroup

\* ... in a timeframe that held a group already, for a task index above 0
C2_Witness ==
  /\ Edited /\ TargetTimeframe # 0 /\ TargetGroup = 0
  /\ Len(prevJson.timeframes[TargetTimeframe].deliverables) > 0
  /\ lastEdit.taskIndex > 0

(***************************************************************************)
(* C3. An edit whose timeframeId matches no timeframe returns a record     *)
(* deep-equal to the input, and a distinct copy of it.                     *)
(***************************************************************************)
C3_MissingTimeframeIsNoOp ==
  (Edited /\ TargetTimeframe = 0) => (Shown = prevJson /\ DistinctCopy)

\* ... on a record that has a timeframe holding the edit's pillarId and a
\* task at the edit's index
C3_Witness ==
  /\ Edited /\ TargetTimeframe = 0
  /\ \E j \in DOMAIN prevJson.timeframes :
       \E k \in DOMAIN prevJson.timeframes[j].deliverables :
         /\ prevJson.timeframes[j].deliverables[k].pillarId = lastEdit.pillarId
         /\ lastEdit.taskIndex + 1 <= Len(prevJson.timeframes[j].deliverables[k].tasks)

(***************************************************************************)
(* C4. As claimed: every malformed edit address (timeframe not located,    *)
(* pillar group not located, or taskIndex outside the group's task list)   *)
(* returns a record deep-equal to the record it was applied to.            *)
(***************************************************************************)
Malformed == Edited /\ ~TargetTaskExists

C4_Original_MalformedIsNoOp == Malformed => Shown = prevJson

(***************************************************************************)
(* C4, amended. When the timeframe is not located, or the taskIndex is     *)
(* outside the located group's task list, the returned record is           *)
(* deep-equal to the record the edit was applied to; when the pillar group *)
(* is not located in a located timeframe, the returned record differs from *)
(* it only by the empty group appended to that timeframe.                  *)
(***************************************************************************)
C4_MalformedChangesNoTask ==
  Malformed =>
    Shown = IF TargetTimeframe # 0 /\ TargetGroup = 0 THEN WithNewGroup ELSE prevJson

\* a task index just past the end of a located group that holds a task
C4_Witness ==
  /\ Malformed /\ TargetGroup # 0
  /\ Len(TargetTasks) > 0
  /\ lastEdit.taskIndex = Len(TargetTasks)

(***************************************************************************)
(* C5. Applying the same edit twice in a row is idempotent: the second     *)
(* application returns a record structurally equal to what the first       *)
(* returned, also when the timeframe or the pillar group is missing.       *)
(***************************************************************************)
C5_SameEditTwiceIsIdempotent ==
  lastEdit.times = 2 => Shown = prevJson

\* the same edit was applied twice and its first application created the
\* group: the record has the group, empty, at the end of the timeframe
C5_Witness ==
  /\ lastEdit.times = 2
  /\ TargetGroup # 0
  /\ TargetGroup = Len(prevJson.timeframes[TargetTimeframe].deliverables)
  /\ TargetGroup > MaxGroups
  /\ TargetTasks = <<>>

(***************************************************************************)
(* What the view properties read: the record shown, and the two views of   *)
(* it.                                                                     *)
(***************************************************************************)
ShownPillars == Items(heap, heap[localData].pillars)
ShownTimeframes == Items(heap, heap[localData].timeframes)
GroupsOf(t) == Items(heap, heap[t].deliverables)
TasksOf(d) == Items(heap, heap[d].tasks)

\* the groups of timeframe t that carry pillar p's id
GroupsFor(p, t) == {d \in Range(GroupsOf(t)) : heap[d].pillarId = heap[p].id}

\* the first of them in the timeframe's list, NullAddr if there is none
FirstGroupFor(p, t) ==
  LET k == FirstMatch({n \in DOMAIN GroupsOf(t) : heap[GroupsOf(t)[n]].pillarId = heap[p].id})
  IN IF k = 0 THEN NullAddr ELSE GroupsOf(t)[k]

FirstGroupHasTasks(p, t) ==
  FirstGroupFor(p, t) # NullAddr /\ TasksOf(FirstGroupFor(p, t)) # <<>>

PillarColumns == PillarView(heap, localData)
TimelineColumns == timeframesWithPillars(heap, localData)

\* the (pillar, timeframe, tasks) triples each view lists, by object
PillarTriples ==
  UNION {{<<PillarColumns[i].pillar, b.timeframe, b.tasks>> : b \in Range(PillarColumns[i].blocks)} :
         i \in DOMAIN PillarColumns}
TimelineTriples ==
  UNION {{<<e.pillar, ShownTimeframes[j], e.tasks>> :
            e \in Range(TimelineColumns[j].deliverablesByPillar)} :
         j \in DOMAIN TimelineColumns}

(***************************************************************************)
(* C6. For every record the pillar view and the timeline view list the     *)
(* same set of non-empty (pillar, timeframe, tasks) triples, also when a   *)
(* timeframe has a dangling pillarId, an empty tasks list or several       *)
(* groups for one pillarId.                                                *)
(***************************************************************************)
C6_ViewsListTheSameTriples ==
  /\ PillarTriples = TimelineTriples
  /\ \A tr \in PillarTriples : Items(heap, tr[3]) # <<>>

\* a record with a timeframe that holds two groups for one pillar, a record
\* with an empty group and with a group no pillar owns, and views that list
\* more than one triple
C6_Witness ==
  /\ Cardinality(PillarTriples) > 1
  /\ \E t \in Range(ShownTimeframes), p \in Range(ShownPillars) : Cardinality(GroupsFor(p, t)) > 1
  /\ \E t \in Range(ShownTimeframes) : \E d \in Range(GroupsOf(t)) : TasksOf(d) = <<>>
  /\ \E t \in Range(ShownTimeframes) : \E d \in Range(GroupsOf(t)) :
       \A p \in Range(ShownPillars) : heap[p].id # heap[d].pillarId

(***************************************************************************)
(* C7. The pillar view lists the pillars in the order of the pillars list  *)
(* and, under each pillar, one block per timeframe in the order of the     *)
(* timeframes list, exactly for the timeframes that have a                 *)
(* DeliverableGroup for that pillar's id with a non-empty tasks list; no   *)
(* block for a timeframe without one; a group whose pillarId matches no    *)
(* pillar never appears.                                                   *)
(***************************************************************************)
HasTasksFor(p, t) == \E d \in GroupsFor(p, t) : TasksOf(d) # <<>>

C7_PillarViewListsEveryNonEmptyGroup ==
  /\ Len(PillarColumns) = Len(ShownPillars)
  /\ \A i \in DOMAIN PillarColumns :
       LET col == PillarColumns[i]
       IN /\ col.pillar = ShownPillars[i]
          /\ [k \in DOMAIN col.blocks |-> col.blocks[k].timeframe]
               = SelectSeq(ShownTimeframes, LAMBDA t : HasTasksFor(ShownPillars[i], t))
          /\ \A b \in Range(col.blocks) :
               \E d \in GroupsFor(col.pillar, b.timeframe) :
                 heap[d].tasks = b.tasks /\ TasksOf(d) # <<>>

(***************************************************************************)
(* C8. The timeline view lists the timeframes in the order of the          *)
(* timeframes list and, in each, the (pillar, tasks, color) entries in the *)
(* order of the pillars list, not in the order the timeframe declares its  *)
(* deliverables; a pillar whose group in the timeframe (the one the lookup *)
(* finds) is absent or has no tasks is left out.                           *)
(***************************************************************************)
C8_TimelineListsInPillarOrder ==
  /\ Len(TimelineColumns) = Len(ShownTimeframes)
  /\ \A j \in DOMAIN TimelineColumns :
       LET col == TimelineColumns[j]
           E == col.deliverablesByPillar
       IN /\ col.id = heap[ShownTimeframes[j]].id
          /\ col.deliverables = heap[ShownTimeframes[j]].deliverables
          /\ [k \in DOMAIN E |-> E[k].pillar]
               = SelectSeq(ShownPillars, LAMBDA p : FirstGroupHasTasks(p, ShownTimeframes[j]))
          /\ \A k \in DOMAIN E :
               /\ E[k].tasks = heap[FirstGroupFor(E[k].pillar, ShownTimeframes[j])].tasks
               /\ E[k].color \in Range(PILLAR_COLORS)

\* a timeframe declares the second pillar's group before the first
\* pillar's, both with tasks, and another timeframe leaves a pillar out
C8_Witness ==
  /\ Len(ShownPillars) > 1
  /\ \E j \in DOMAIN ShownTimeframes :
       LET G == GroupsOf(ShownTimeframes[j])
       IN /\ Len(TimelineColumns[j].deliverablesByPillar) = 2
          /\ Len(G) > 1
          /\ heap[G[1]].pillarId = heap[ShownPillars[2]].id
          /\ heap[G[2]].pillarId = heap[ShownPillars[1]].id
          /\ heap[G[1]].pillarId # heap[G[2]].pillarId
  /\ \E j \in DOMAIN ShownTimeframes :
       Len(TimelineColumns[j].deliverablesByPillar) < Len(ShownPillars)

C10_SameColorInBothViews ==
  \A j \in DOMAIN TimelineColumns :
    \A e \in Range(TimelineColumns[j].deliverablesByPillar) :
      \E i \in DOMAIN PillarColumns :
        PillarColumns[i].pillar = e.pillar /\ PillarColumns[i].color = e.color

\* a column of the timeline whose first entry is the second pillar, the
\* first pillar being left out of it
C10_Witness ==
  /\ Len(ShownPillars) > 1
  /\ \E j \in DOMAIN TimelineColumns :
       LET E == TimelineColumns[j].deliverablesByPillar
       IN /\ Len(E) = 1
          /\ E[1].pillar = ShownPillars[2]
          /\ E[1].color = PILLAR_COLORS["p2"]

(***************************************************************************)
(* parseRoadmapText. What the model replied is a JSON text; JSON.parse     *)
(* turns it into a value of any shape. A value is a record with its kind;  *)
(* an object carries its properties as further fields; undefined is what   *)
(* reading a property that is not there gives.                             *)
(***************************************************************************)
JUndefined == [kind |-> "undefined"]
JNull == [kind |-> "null"]
JBool(b) == [kind |-> "boolean", bool |-> b]
JNum(n) == [kind |-> "number", num |-> n]
JStr(str) == [kind |-> "string", str |-> str, length |-> Len(str)]
JArr(items) == [kind |-> "array", items |-> items]
JEmptyObject == [kind |-> "object"]

\* !v
Falsy(v) ==
  \/ v.kind \in {"undefined", "null"}
  \/ v.kind = "boolean" /\ ~v.bool
  \/ v.kind = "number" /\ v.num = 0
  \/ v.kind = "string" /\ v.length = 0

\* Array.isArray(v): v has find, push and indexed items
IsList(v) == v.kind = "array"

\* v.name throws a TypeError exactly when v is null or undefined
ReadThrows(v) == v.kind \in {"undefined", "null"}

\* v.name, for a v it can be read from
Get(v, name) ==
  IF v.kind = "object" /\ name \in DOMAIN v THEN v[name] ELSE JUndefined

\* the replies of the model: texts that are not JSON, JSON that is not an
\* object, and objects whose pillars and timeframes are of any shape
TasksShapes ==
  {JUndefined, JNull, JStr("ab"), JNum(5), JArr(<<>>), JArr(<<JStr("A")>>)}
GroupShapes ==
  {JNull} \cup {[kind |-> "object", pillarId |-> JStr("p1"), tasks |-> tk] : tk \in TasksShapes}
DeliverablesShapes ==
  {JUndefined, JNull, JStr("ab"), JEmptyObject, JArr(<<>>)} \cup {JArr(<<g>>) : g \in GroupShapes}
TimeframeShapes ==
  {JNull, JStr("t1")}
  \cup {[kind |-> "object", id |-> JStr("t1"), date |-> JStr("2025"), name |-> JStr("Build-out"),
         deliverables |-> d] : d \in DeliverablesShapes}
WellFormedTimeframe ==
  [kind |-> "object", id |-> JStr("t1"), date |-> JStr("2025"), name |-> JStr("Build-out"),
   deliverables |-> JArr(<<[kind |-> "object", pillarId |-> JStr("p1"), tasks |-> JArr(<<JStr("A")>>)]>>)]
TimeframesShapes ==
  {JUndefined, JNull, JBool(FALSE), JBool(TRUE), JNum(0), JNum(5), JStr(""), JStr("ab"),
   JEmptyObject, JArr(<<>>), JArr(<<JNull, WellFormedTimeframe>>), JArr(<<WellFormedTimeframe, JNull>>)}
  \cup {JArr(<<t>>) : t \in TimeframeShapes}
PillarsShapes ==
  {JUndefined, JNull, JBool(FALSE), JBool(TRUE), JNum(0), JNum(5), JStr(""), JStr("ab"),
   JEmptyObject, JArr(<<>>),
   JArr(<<[kind |-> "object", id |-> JStr("p1"), name |-> JStr("Core")]>>)}
NotJson == [kind |-> "not JSON"]
Replies ==
  {NotJson, JNull, JNum(5), JStr("ab"), JArr(<<>>), JEmptyObject}
  \cup {[kind |-> "object", title |-> JStr("Roadmap"), subtitle |-> JStr("Deliverables"),
         pillars |-> P, timeframes |-> T] : P \in PillarsShapes, T \in TimeframesShapes}

Providers == {"GATEWAY", "GEMINI"}

Threw(message) == [threw |-> TRUE, message |-> message, value |-> JUndefined]
Returned(v) == [threw |-> FALSE, message |-> "", value |-> v]

\* try { parsedJson = JSON.parse(jsonStr); if (!parsedJson.pillars ||
\* !parsedJson.timeframes) throw ...; return parsedJson } catch (e) { throw ... }
ValidateReply(reply, invalid) ==
  IF reply.kind = "not JSON" \/ ReadThrows(reply) THEN Threw(invalid)
  ELSE IF Falsy(Get(reply, "pillars")) \/ Falsy(Get(reply, "timeframes")) THEN Threw(invalid)
  ELSE Returned(reply)

\* parseRoadmapText(text): a promise that is rejected with an Error or
\* fulfilled with the record. keysSet: the provider's URL and key are
\* configured; responseOk: the request was answered with success;
\* hasContent: the answer carries the text of the model's reply
parseRoadmapText(provider, keysSet, responseOk, hasContent, reply) ==
  IF provider = "GATEWAY"
  THEN IF ~keysSet
       THEN Threw("AI Gateway is the configured provider, but VITE_AI_GATEWAY_URL or VITE_AI_GATEWAY_API_KEY is missing.")
       ELSE IF ~responseOk THEN Threw("AI Gateway request failed with status")
       ELSE IF ~hasContent
       THEN Threw("The AI Gateway response did not contain the expected content in \"choices[0].message.content\".")
       ELSE ValidateReply(reply, "The AI Gateway returned an invalid JSON structure.")
  ELSE IF ~keysSet
       THEN Threw("Gemini is the configured provider, but the API_KEY is missing in the execution environment.")
       ELSE IF ~responseOk THEN Threw("generateContent failed")
       ELSE IF ~hasContent THEN Threw("Cannot read properties of undefined (reading 'trim')")
       ELSE ValidateReply(reply, "The AI model returned an invalid data structure. Please check the input format or try again.")

(***************************************************************************)
(* One call of parseRoadmapText, and one edit of the record it returned.   *)
(***************************************************************************)
NoOutcome == [threw |-> FALSE, message |-> "", value |-> JUndefined]

InitParse ==
  /\ \E provider \in Providers, keysSet \in BOOLEAN, responseOk \in BOOLEAN,
        hasContent \in BOOLEAN, reply \in Replies :
       parse = [called |-> FALSE, provider |-> provider, keysSet |-> keysSet,
                responseOk |-> responseOk, hasContent |-> hasContent, reply |-> reply,
                out |-> NoOutcome, edited |-> FALSE, edit |-> NoEdit, editOut |-> NoOutcome]
  /\ heap = <<>>
  /\ localData = NullAddr
  /\ prevData = NullAddr
  /\ prevJson = NoJson
  /\ lastEdit = NoEdit
  /\ edits = 0
  /\ colorCall = NoCall
  /\ colorRet = NoColor
  /\ startJson = NoJson
  /\ app = NoApp /\ queue = NoQueue /\ cell = NoCell /\ form = NoForm /\ canvas = NoCanvas

\* const data = await parseRoadmapText(text)
CallParse ==
  /\ ~parse.called
  /\ parse' = [parse EXCEPT
       !.called = TRUE,
       !.out = parseRoadmapText(parse.provider, parse.keysSet, parse.responseOk,
                                parse.hasContent, parse.reply)]
  /\ UNCHANGED <<heap, localData, prevData, prevJson, lastEdit, edits, colorCall, colorRet,
                 startJson, app, queue, cell, form, canvas>>

\* arr.find(x => x.name === target) over the items of an array: the
\* callback throws at an item that is null, unless an earlier item matched
FindLoose(items, name, target) ==
  LET nulls == {i \in DOMAIN items : ReadThrows(items[i])}
      hits == {i \in DOMAIN items : ~ReadThrows(items[i]) /\ Get(items[i], name) = JStr(target)}
  IN IF nulls # {} /\ (hits = {} \/ Least(nulls) < Least(hits))
     THEN [threw |-> TRUE, index |-> Undefined]
     ELSE [threw |-> FALSE, index |-> FindIndex(hits)]

\* handleEdit's updater on a record whose nested shapes nothing has
\* checked: what it returns, or the TypeError it throws. The module is
\* strict code, so writing to an index of a string throws.
handleEditLoose(prev, timeframeId, pillarId, taskIndex, newText) ==
  LET newData == prev
      T == Get(newData, "timeframes")
  IN IF ~IsList(T) THEN Threw("newData.timeframes.find is not a function")
     ELSE LET ft == FindLoose(T.items, "id", timeframeId)
          IN IF ft.threw THEN Threw("Cannot read properties of null (reading 'id')")
             ELSE IF ft.index = Undefined THEN Returned(newData)
             ELSE LET D == Get(T.items[ft.index], "deliverables")
                  IN IF ReadThrows(D) THEN Threw("Cannot read properties of undefined (reading 'find')")
                     ELSE IF ~IsList(D) THEN Threw("timeframe.deliverables.find is not a function")
                     ELSE LET fd == FindLoose(D.items, "pillarId", pillarId)
                              tasks == Get(D.items[fd.index], "tasks")
                          IN IF fd.threw THEN Threw("Cannot read properties of null (reading 'pillarId')")
                             ELSE IF fd.index = Undefined
                             THEN Returned([newData EXCEPT
                                    !.timeframes.items[ft.index].deliverables.items =
                                       Append(@, [kind |-> "object", pillarId |-> JStr(pillarId),
                                                  tasks |-> JArr(<<>>)])])
                             ELSE IF ReadThrows(tasks)
                             THEN Threw("Cannot read properties of undefined (reading '0')")
                             ELSE IF tasks.kind = "string" /\ taskIndex < tasks.length
                             THEN Threw("Cannot assign to read only property '0' of string")
                             ELSE IF IsList(tasks) /\ Defined(tasks.items, taskIndex)
                             THEN Returned([newData EXCEPT
                                    !.timeframes.items[ft.index].deliverables.items[fd.index]
                                      .tasks.items[taskIndex + 1] = JStr(newText)])
                             ELSE Returned(newData)

\* onEdit(...) on the record the call returned
EditParsed(timeframeId, pillarId, taskIndex, newText) ==
  /\ parse.called /\ ~parse.out.threw /\ ~parse.edited
  /\ parse' = [parse EXCEPT
       !.edited = TRUE,
       !.edit = [timeframeId |-> timeframeId, pillarId |-> pillarId, taskIndex |-> taskIndex,
                 newText |-> newText, times |-> 1],
       !.editOut = handleEditLoose(parse.out.value, timeframeId, pillarId, taskIndex, newText)]
  /\ UNCHANGED <<heap, localData, prevData, prevJson, lastEdit, edits, colorCall, colorRet,
                 startJson, app, queue, cell, form, canvas>>

NextParse ==
  \/ CallParse
  \/ \E timeframeId \in EditTimeframeIds, pillarId \in EditPillarIds,
        taskIndex \in EditTaskIndexes, newText \in NewTexts :
       EditParsed(timeframeId, pillarId, taskIndex, newText)

SpecParse == InitParse /\ [][NextParse]_vars

(***************************************************************************)
(* C11. parseRoadmapText fails with an error, and returns no record,       *)
(* whenever the candidate's pillars or timeframes field is absent or is    *)
(* not a list; it returns a record only when both are lists, and then      *)
(* returns the candidate unchanged.                                        *)
(***************************************************************************)
C11_ParseRejectsWhatIsNotAList ==
  parse.called =>
    /\ (parse.reply.kind = "not JSON" \/ ~IsList(Get(parse.reply, "pillars"))
        \/ ~IsList(Get(parse.reply, "timeframes")))
         => parse.out.threw
    /\ ~parse.out.threw =>
         /\ IsList(Get(parse.reply, "pillars")) /\ IsList(Get(parse.reply, "timeframes"))
         /\ parse.out.value = parse.reply

(***************************************************************************)
(* C17. The edit resolver never raises: for every record parseRoadmapText  *)
(* accepts (it checks that pillars and timeframes are there, not the       *)
(* nested shapes) and every address and newText, handleEdit returns a      *)
(* record without throwing.                                                *)
(***************************************************************************)
C17_EditNeverThrows ==
  parse.edited => ~parse.editOut.threw

(***************************************************************************)
(* C12. Starting from a record in which no timeframe has two               *)
(* DeliverableGroups with the same pillarId, after any sequence of         *)
(* handleEdit applications, with any addresses, no timeframe has two       *)
(* DeliverableGroups with the same pillarId.                               *)
(***************************************************************************)
NoDuplicateGroups(json) ==
  \A j \in DOMAIN json.timeframes :
    LET D == json.timeframes[j].deliverables
    IN \A k1, k2 \in DOMAIN D : D[k1].pillarId = D[k2].pillarId => k1 = k2

C12_EditsAddNoDuplicateGroup ==
  NoDuplicateGroups(startJson) => NoDuplicateGroups(Shown)

\* two edits were applied to a record without duplicates: the first made a
\* group next to one that was there, the second was addressed to the new group
C12_Witness ==
  /\ NoDuplicateGroups(startJson)
  /\ edits = 2
  /\ TargetGroup > 1
  /\ TargetGroup > Len(startJson.timeframes[TargetTimeframe].deliverables)

(***************************************************************************)
(* C18. After any sequence of handleEdit applications the pillars list     *)
(* (ids, names, order), the order and ids of the timeframes, the relative  *)
(* order of the groups each timeframe had, and the length of every tasks   *)
(* list it had are as in the starting record: no edit inserts, removes,    *)
(* re-sorts or de-duplicates tasks.                                        *)
(***************************************************************************)
C18_EditsKeepTheStructure ==
  Edited =>
    /\ Shown.pillars = startJson.pillars
    /\ Len(Shown.timeframes) = Len(startJson.timeframes)
    /\ \A j \in DOMAIN startJson.timeframes :
         LET was == startJson.timeframes[j]
             now == Shown.timeframes[j]
         IN /\ now.id = was.id /\ now.date = was.date /\ now.name = was.name
            /\ Len(now.deliverables) >= Len(was.deliverables)
            /\ \A k \in DOMAIN was.deliverables :
                 /\ now.deliverables[k].pillarId = was.deliverables[k].pillarId
                 /\ Len(now.deliverables[k].tasks) = Len(was.deliverables[k].tasks)
                 /\ \A n \in DOMAIN was.deliverables[k].tasks :
                      now.deliverables[k].tasks[n] \in {was.deliverables[k].tasks[n]} \cup NewTexts

\* two edits, one that replaced a task of a group holding two tasks and one
\* that made a group, in a record with two pillars and two timeframes
C18_Witness ==
  /\ edits = 2
  /\ Len(startJson.pillars) = 2 /\ Len(startJson.timeframes) = 2
  /\ \E j \in DOMAIN startJson.timeframes :
       Len(Shown.timeframes[j].deliverables) > Len(startJson.timeframes[j].deliverables)
  /\ \E j \in DOMAIN startJson.timeframes : \E k \in DOMAIN startJson.timeframes[j].deliverables :
       /\ Len(startJson.timeframes[j].deliverables[k].tasks) = 2
       /\ Shown.timeframes[j].deliverables[k].tasks # startJson.timeframes[j].deliverables[k].tasks

(***************************************************************************)
(* The editor with its update queue. onEdit gives setLocalData an updater; *)
(* React keeps the updaters in the order given and, at the next render,    *)
(* runs them one after the other.                                          *)
(***************************************************************************)
QueueRecords ==
  {v \in InitialRecords :
     /\ Len(v.pillars) = MaxPillars
     /\ \A i \in DOMAIN v.pillars : v.pillars[i].id = PillarIdSeq[i]}

InitQueue ==
  /\ \E v \in QueueRecords : heap = ParseJSON(v, 0) /\ startJson = v
  /\ localData = Addr(0, "root", 0, 0)
  /\ queue = [pending |-> <<>>, committed |-> <<>>]
  /\ prevData = NullAddr
  /\ prevJson = NoJson
  /\ lastEdit = NoEdit
  /\ edits = 0
  /\ colorCall = NoCall
  /\ colorRet = NoColor
  /\ parse = NoParse /\ app = NoApp /\ cell = NoCell /\ form = NoForm /\ canvas = NoCanvas

\* onEdit(timeframeId, pillarId, taskIndex, newText): setLocalData(prevData => ...)
\* puts the updater in the queue
CommitEdit(timeframeId, pillarId, taskIndex, newText) ==
  LET e == [timeframeId |-> timeframeId, pillarId |-> pillarId, taskIndex |-> taskIndex,
            newText |-> newText, times |-> 1]
  IN /\ Len(queue.committed) < MaxCommits
     /\ queue' = [pending |-> Append(queue.pending, e), committed |-> Append(queue.committed, e)]
     /\ lastEdit' = e
     /\ UNCHANGED <<heap, localData, prevData, prevJson, edits, colorCall, colorRet, startJson,
                    parse, app, cell, form, canvas>>

\* a slip: setLocalData(update(localData)), computed from the record of the
\* render the handler was made in
StaleBase(rendered, current) == rendered

\* setLocalData(prevData => ...): what the updater is given as prevData is
\* the state the updaters before it left, not the record last rendered
UpdaterBase(rendered, current) == current

\* the queue run at a render: each updater on the state the one before left
RECURSIVE RunUpdaters(_, _, _, _)
RunUpdaters(h, rendered, current, pending) ==
  IF pending = <<>> THEN [heap |-> h, ret |-> current]
  ELSE LET e == Head(pending)
       IN CHOOSE out \in
            {RunUpdaters(r.heap, rendered, r.ret, Tail(pending)) :
               r \in {handleEdit(h, UpdaterBase(rendered, current),
                                 e.timeframeId, e.pillarId, e.taskIndex, e.newText)}} : TRUE

\* the render after one or several onEdit calls
Render ==
  /\ queue.pending # <<>>
  /\ \E base \in {Collect(heap, {localData})} :
       \E r \in {RunUpdaters(base, localData, localData, queue.pending)} :
         /\ heap' = Collect(r.heap, {localData, r.ret})
         /\ localData' = r.ret
  /\ prevData' = localData
  /\ prevJson' = Stringify(heap, localData)
  /\ edits' = edits + Len(queue.pending)
  /\ queue' = [queue EXCEPT !.pending = <<>>]
  /\ UNCHANGED <<lastEdit, colorCall, colorRet, startJson, parse, app, cell, form, canvas>>

NextQueue ==
  \/ \E timeframeId \in EditTimeframeIds, pillarId \in EditPillarIds,
        taskIndex \in EditTaskIndexes, newText \in NewTexts :
       CommitEdit(timeframeId, pillarId, taskIndex, newText)
  \/ Render

SpecQueue == InitQueue /\ [][NextQueue]_vars

(***************************************************************************)
(* C14. Edits are applied in the order they are committed, each to the     *)
(* record the edit before it produced: after committing e1..en, also when  *)
(* several are queued before a render, the record held is                  *)
(* handleEdit(...handleEdit(handleEdit(d0, e1), e2)..., en); no committed  *)
(* edit is lost to a stale base record.                                    *)
(***************************************************************************)
\* what one edit makes of a record, as a value
EditedValue(json, e) ==
  LET ti == FirstMatch({j \in DOMAIN json.timeframes : json.timeframes[j].id = e.timeframeId})
      D == json.timeframes[ti].deliverables
      di == FirstMatch({k \in DOMAIN D : D[k].pillarId = e.pillarId})
  IN IF ti = 0 THEN json
     ELSE IF di = 0
     THEN [json EXCEPT !.timeframes[ti].deliverables =
             Append(@, [pillarId |-> e.pillarId, tasks |-> <<>>])]
     ELSE IF e.taskIndex + 1 <= Len(D[di].tasks)
     THEN [json EXCEPT !.timeframes[ti].deliverables[di].tasks[e.taskIndex + 1] = e.newText]
     ELSE json

RECURSIVE EditedInOrder(_, _)
EditedInOrder(json, es) ==
  IF es = <<>> THEN json ELSE EditedInOrder(EditedValue(json, Head(es)), Tail(es))

C14_EditsApplyInCommitOrder ==
  (queue.committed # <<>> /\ queue.pending = <<>>) =>
    Shown = EditedInOrder(startJson, queue.committed)

\* two edits were queued before one render: the first made a group, the
\* second replaced a task elsewhere, and the record rendered has both
C14_Witness ==
  /\ Len(queue.committed) = 2 /\ queue.pending = <<>>
  /\ edits = 2
  /\ prevJson = startJson
  /\ EditedValue(startJson, queue.committed[1]) # startJson
  /\ EditedValue(startJson, queue.committed[2]) # startJson
  /\ Shown # EditedValue(startJson, queue.committed[1])
  /\ Shown # EditedValue(startJson, queue.committed[2])

(***************************************************************************)
(* The session: App, holding roadmapData, sourceText, isLoading and error, *)
(* with the EditorCanvas it mounts when there is a record. A text is the   *)
(* sequence of its characters.                                             *)
(***************************************************************************)
Whitespace == {" ", "\n"}

RECURSIVE TrimStart(_)
TrimStart(text) ==
  IF text # <<>> /\ Head(text) \in Whitespace THEN TrimStart(Tail(text)) ELSE text

RECURSIVE TrimEnd(_)
TrimEnd(text) ==
  IF text # <<>> /\ text[Len(text)] \in Whitespace
  THEN TrimEnd(SubSeq(text, 1, Len(text) - 1))
  ELSE text

\* String.prototype.trim
Trim(text) == TrimEnd(TrimStart(text))

\* what the user may submit from the start screen
SessionTexts == {<<>>, <<" ">>, <<"#">>, <<" ", "#">>}

\* a well-formed record as the JSON value the model replies with, and back
AsJson(v) ==
  [kind |-> "object", title |-> JStr(v.title), subtitle |-> JStr(v.subtitle),
   pillars |-> JArr([i \in DOMAIN v.pillars |->
      [kind |-> "object", id |-> JStr(v.pillars[i].id), name |-> JStr(v.pillars[i].name)]]),
   timeframes |-> JArr([j \in DOMAIN v.timeframes |->
      [kind |-> "object", id |-> JStr(v.timeframes[j].id), date |-> JStr(v.timeframes[j].date),
       name |-> JStr(v.timeframes[j].name),
       deliverables |-> JArr([k \in DOMAIN v.timeframes[j].deliverables |->
          [kind |-> "object", pillarId |-> JStr(v.timeframes[j].deliverables[k].pillarId),
           tasks |-> JArr([n \in DOMAIN v.timeframes[j].deliverables[k].tasks |->
              JStr(v.timeframes[j].deliverables[k].tasks[n])])]])]])]

AsRecord(json) ==
  [title |-> json.title.str, subtitle |-> json.subtitle.str,
   pillars |-> [i \in DOMAIN json.pillars.items |->
      [id |-> json.pillars.items[i].id.str, name |-> json.pillars.items[i].name.str]],
   timeframes |-> [j \in DOMAIN json.timeframes.items |->
      LET t == json.timeframes.items[j]
      IN [id |-> t.id.str, date |-> t.date.str, name |-> t.name.str,
          deliverables |-> [k \in DOMAIN t.deliverables.items |->
             [pillarId |-> t.deliverables.items[k].pillarId.str,
              tasks |-> [n \in DOMAIN t.deliverables.items[k].tasks.items |->
                 t.deliverables.items[k].tasks.items[n].str]]]]]]

\* the records the model replies with in a session: both pillars, one
\* timeframe, one group with a full tasks list
SessionRecords ==
  {v \in QueueRecords :
     /\ Len(v.timeframes) = 1
     /\ Len(v.timeframes[1].deliverables) = 1
     /\ Len(v.timeframes[1].deliverables[1].tasks) = MaxTasks}

\* its replies: those records, and replies the validation rejects
SessionReplies ==
  {AsJson(v) : v \in SessionRecords}
  \cup {NotJson, JNull,
        [kind |-> "object", title |-> JStr("Roadmap"), subtitle |-> JStr("Deliverables"),
         pillars |-> JArr(<<>>), timeframes |-> JUndefined]}

\* a slip: the text tested without trim(), so that blanks count as a text
handleGenerateRoadmapUntrimmed(a, text) ==
  IF text = <<>>
  THEN [a EXCEPT !.error = "Please paste some roadmap text."]
  ELSE [a EXCEPT !.isLoading = TRUE, !.error = "", !.roadmapData = NullAddr,
                 !.sourceText = text, !.inFlight = @ + 1]

\* handleGenerateRoadmap(text) up to its await; the call of parseRoadmapText
\* leaves one more promise pending
handleGenerateRoadmap(a, text) ==
  IF Trim(text) = <<>>
  THEN [a EXCEPT !.error = "Please paste some roadmap text."]
  ELSE [a EXCEPT !.isLoading = TRUE, !.error = "", !.roadmapData = NullAddr,
                 !.sourceText = text, !.inFlight = @ + 1]

\* a slip: the finally block left out, isLoading stays set
SettledWithoutFinally(a, out, data) ==
  IF ~out.threw
  THEN [a EXCEPT !.roadmapData = data, !.inFlight = @ - 1]
  ELSE [a EXCEPT !.error = "Failed to generate roadmap. Details: " \o out.message,
                 !.inFlight = @ - 1]

\* handleGenerateRoadmap from its await on: try, catch and finally, with
\* the outcome of parseRoadmapText and the record object it resolved to
Settled(a, out, data) ==
  IF ~out.threw
  THEN [a EXCEPT !.roadmapData = data, !.isLoading = FALSE, !.inFlight = @ - 1]
  ELSE [a EXCEPT
          !.error = "Failed to generate roadmap. The AI model may have returned an invalid data structure. Please check the input format or try again. Details: "
                    \o (IF out.message = "" THEN "An unknown error occurred." ELSE out.message),
          !.isLoading = FALSE, !.inFlight = @ - 1]

handleEditData(a) == [a EXCEPT !.roadmapData = NullAddr, !.error = "", !.isLoading = FALSE]

handleTryAgain(a) == [a EXCEPT !.error = "", !.isLoading = FALSE, !.roadmapData = NullAddr]

\* a slip: no spinner, the start screen stays up while a parse is pending
renderContentNoSpinner(a) ==
  IF a.error # "" THEN "Error"
  ELSE IF a.roadmapData # NullAddr THEN "EditorCanvas"
  ELSE "StartScreen"

\* renderContent: which screen is shown
renderContent(a) ==
  IF a.isLoading THEN "Spinner"
  ELSE IF a.error # "" THEN "Error"
  ELSE IF a.roadmapData # NullAddr THEN "EditorCanvas"
  ELSE "StartScreen"

\* a slip: the editor stays mounted from one record to the next and keeps
\* its state
KeptState(data, kept) == IF kept # NullAddr THEN kept ELSE data

\* const [localData, setLocalData] = useState(data), in an EditorCanvas that
\* is mounted anew: the state starts as the data prop, whatever state (kept)
\* the editor unmounted before had
useStateData(data, kept) == data

\* app also records: how many promises of parseRoadmapText are pending
\* (inFlight), the text submitted last, how the last parse attempt ended,
\* how many submits were made,
\* and the state of the editor that was unmounted last
InitSession ==
  /\ app = [mounted |-> TRUE, roadmapData |-> NullAddr, sourceText |-> <<>>,
            isLoading |-> FALSE, error |-> "", inFlight |-> 0, submitted |-> <<>>,
            outcome |-> "none", parses |-> 0, unmounted |-> NullAddr, discarded |-> NoJson]
  /\ heap = <<>>
  /\ localData = NullAddr
  /\ prevData = NullAddr
  /\ prevJson = NoJson
  /\ lastEdit = NoEdit
  /\ edits = 0
  /\ colorCall = NoCall
  /\ colorRet = NoColor
  /\ startJson = NoJson
  /\ parse = NoParse /\ queue = NoQueue /\ cell = NoCell /\ form = NoForm /\ canvas = NoCanvas

\* StartScreen.handleSubmit: onGenerate(text)
Submit(text) ==
  /\ renderContent(app) = "StartScreen"
  /\ app.parses < MaxParses
  /\ app' = [handleGenerateRoadmap(app, text) EXCEPT !.parses = @ + 1, !.submitted = text]
  /\ UNCHANGED <<heap, localData, prevData, prevJson, lastEdit, edits, colorCall, colorRet,
                 startJson, parse, queue, cell, form, canvas>>

\* the promise of parseRoadmapText settles and handleGenerateRoadmap runs
\* on; with a record, renderContent mounts an EditorCanvas on it
ParseSettles(provider, keysSet, responseOk, hasContent, reply) ==
  LET out == parseRoadmapText(provider, keysSet, responseOk, hasContent, reply)
      g == FreshGen(heap)
      data == Addr(g, "root", 0, 0)
      a == Settled(app, out, IF out.threw THEN NullAddr ELSE data)
      h == IF out.threw THEN heap ELSE ParseJSON(AsRecord(out.value), g) @@ heap
      local == IF renderContent(a) = "EditorCanvas"
               THEN useStateData(a.roadmapData, app.unmounted)
               ELSE NullAddr
  IN /\ app.inFlight > 0
     /\ app' = [a EXCEPT !.outcome = IF out.threw THEN "rejected" ELSE "resolved",
                         !.unmounted = IF local = NullAddr THEN @ ELSE NullAddr]
     /\ localData' = local
     /\ heap' = Collect(h, {a.roadmapData, local}
                             \cup (IF local = NullAddr THEN {app.unmounted} ELSE {}))
     /\ startJson' = IF out.threw THEN startJson ELSE AsRecord(out.value)
     /\ prevData' = NullAddr
     /\ prevJson' = NoJson
     /\ lastEdit' = NoEdit
     /\ edits' = 0
     /\ UNCHANGED <<colorCall, colorRet, parse, queue, cell, form, canvas>>

\* the Try Again button of the error screen
TryAgain ==
  /\ renderContent(app) = "Error"
  /\ app' = handleTryAgain(app)
  /\ UNCHANGED <<heap, localData, prevData, prevJson, lastEdit, edits, colorCall, colorRet,
                 startJson, parse, queue, cell, form, canvas>>

\* the editor's onReset button: back to the start screen, the EditorCanvas
\* is unmounted
EditData ==
  /\ renderContent(app) = "EditorCanvas"
  /\ app' = [handleEditData(app) EXCEPT !.unmounted = localData,
                                        !.discarded = Stringify(heap, localData)]
  /\ localData' = NullAddr
  /\ heap' = Collect(heap, {localData})
  /\ UNCHANGED <<prevData, prevJson, lastEdit, edits, colorCall, colorRet,
                 startJson, parse, queue, cell, form, canvas>>

\* onEdit in the mounted editor
SessionEdit(timeframeId, pillarId, taskIndex, newText) ==
  LET r == handleEdit(Collect(heap, {localData, app.roadmapData}), localData,
                      timeframeId, pillarId, taskIndex, newText)
  IN /\ renderContent(app) = "EditorCanvas"
     /\ localData # NullAddr
     /\ edits < MaxEdits
     /\ edits' = edits + 1
     /\ heap' = Collect(r.heap, {localData, r.ret, app.roadmapData})
     /\ localData' = r.ret
     /\ prevData' = localData
     /\ prevJson' = Stringify(heap, localData)
     /\ lastEdit' = [timeframeId |-> timeframeId, pillarId |-> pillarId,
                     taskIndex |-> taskIndex, newText |-> newText, times |-> 1]
     /\ UNCHANGED <<app, colorCall, colorRet, startJson, parse, queue, cell, form, canvas>>

NextSession ==
  \/ \E text \in SessionTexts : Submit(text)
  \/ \E provider \in Providers, keysSet \in BOOLEAN, responseOk \in BOOLEAN,
        hasContent \in BOOLEAN, reply \in SessionReplies :
       ParseSettles(provider, keysSet, responseOk, hasContent, reply)
  \/ TryAgain
  \/ EditData
  \/ \E timeframeId \in EditTimeframeIds, pillarId \in EditPillarIds,
        taskIndex \in EditTaskIndexes, newText \in NewTexts :
       SessionEdit(timeframeId, pillarId, taskIndex, newText)

SpecSession == InitSession /\ [][NextSession]_vars

(***************************************************************************)
(* C13. If a parse attempt fails, the canonical record the session holds   *)
(* from the prior successful parse, if any, is still held unchanged and    *)
(* usable afterwards: a failed parse never replaces or clears it.          *)
(***************************************************************************)
C13_FailedParseKeepsTheRecord ==
  (app.mounted /\ app.outcome = "rejected" /\ startJson # NoJson) =>
    /\ app.roadmapData # NullAddr
    /\ Stringify(heap, app.roadmapData) = startJson

(***************************************************************************)
(* C19. When a new parse succeeds, the record the editor shows and edits   *)
(* is replaced wholesale by the parse result: the editor's localData is    *)
(* the newly parsed record and has none of the edits made to the record    *)
(* before.                                                                 *)
(***************************************************************************)
C19_NewParseReplacesTheRecord ==
  (app.mounted /\ renderContent(app) = "EditorCanvas" /\ edits = 0) =>
    /\ localData = app.roadmapData
    /\ Shown = startJson

EditArgs ==
  [timeframeId : EditTimeframeIds, pillarId : EditPillarIds, taskIndex : EditTaskIndexes,
   newText : NewTexts, times : {1}]

\* the editor was mounted on a second parse result; the record it showed
\* before was that same record with an edit made to it
C19_Witness ==
  /\ app.mounted /\ renderContent(app) = "EditorCanvas" /\ edits = 0
  /\ app.parses = 2
  /\ app.discarded # startJson
  /\ \E e \in EditArgs : EditedValue(startJson, e) = app.discarded

(***************************************************************************)
(* C20. In every reachable state of the session the error message and the *)
(* canonical record are never both set, and while isLoading is true both   *)
(* are unset; hence the editor is shown only in a state with a record, no  *)
(* error and no parse in flight.                                           *)
(***************************************************************************)
C20_ErrorRecordAndLoadingExclude ==
  app.mounted =>
    /\ ~(app.error # "" /\ app.roadmapData # NullAddr)
    /\ app.isLoading => (app.error = "" /\ app.roadmapData = NullAddr)
    /\ localData # NullAddr =>
         (app.roadmapData # NullAddr /\ app.error = "" /\ ~app.isLoading)

\* the error screen after a failed parse, in a session that has shown a
\* record in the editor before
C20_Witness ==
  /\ app.mounted /\ renderContent(app) = "Error"
  /\ app.outcome = "rejected"
  /\ app.discarded # NoJson

(***************************************************************************)
(* The form App: roadmapData with deliverables as a map from pillarId to   *)
(* tasks, edited field by field. Its objects live on the same heap; a      *)
(* task is the sequence of its characters.                                 *)
(***************************************************************************)
FormKeys == <<"p1", "p2", "p3", "p4", "p9">>
KeyNo(pillarId) == CHOOSE n \in DOMAIN FormKeys : FormKeys[n] = pillarId

\* initialRoadmapData, each task cut down to its first letter
initialRoadmapData ==
  [title |-> "FlowX: Deliverables Matrix (2025-2026)",
   subtitle |-> "Key Deliverables by Annual Theme & Strategic Pillar",
   pillars |-> <<[id |-> "p1", name |-> "Core Platform & Architecture"],
                 [id |-> "p2", name |-> "Hybrid Cloud & Security"],
                 [id |-> "p3", name |-> "Observability"],
                 [id |-> "p4", name |-> "GenAI Integration"]>>,
   timeframes |->
     <<[id |-> "t1", title |-> "2025: FlowX Build-out, Migration & AI Empowerment",
        deliverables |-> ("p1" :> <<<<"F">>, <<"C">>, <<"P">>, <<"P">>, <<"D">>>>)
                         @@ ("p2" :> <<<<"H">>, <<"U">>>>)
                         @@ ("p3" :> <<<<"L">>, <<"C">>, <<"V">>>>)
                         @@ ("p4" :> <<<<"D">>, <<"C">>>>)],
       [id |-> "t2", title |-> "2026: FlowX Stabilization, AI Diagnostics & Flow As API",
        deliverables |-> ("p1" :> <<<<"L">>, <<"P">>, <<"F">>, <<"M">>>>)
                         @@ ("p2" :> <<<<"H">>, <<"S">>>>)
                         @@ ("p3" :> <<<<"F">>>>)
                         @@ ("p4" :> <<<<"F">>, <<"F">>>>)]>>]

\* JSON.stringify of the form's record, as the value it denotes
FormStringify(h, a) ==
  LET P == Items(h, h[a].pillars)
      T == Items(h, h[a].timeframes)
  IN [title |-> h[a].title, subtitle |-> h[a].subtitle,
      pillars |-> [i \in DOMAIN P |-> [id |-> h[P[i]].id, name |-> h[P[i]].name]],
      timeframes |-> [j \in DOMAIN T |->
         [id |-> h[T[j]].id, title |-> h[T[j]].title,
          deliverables |-> [key \in DOMAIN h[h[T[j]].deliverables].keys |->
                              Items(h, h[h[T[j]].deliverables].keys[key])]]]]

\* the objects JSON.parse builds for the value v, all new, as generation g
FormParse(v, g) ==
  LET P == v.pillars
      T == v.timeframes
      JK == UNION {{<<j, KeyNo(key)>> : key \in DOMAIN T[j].deliverables} : j \in DOMAIN T}
  IN (Addr(g, "root", 0, 0) :>
        [type |-> "RoadmapData", title |-> v.title, subtitle |-> v.subtitle,
         pillars |-> Addr(g, "pillars", 0, 0), timeframes |-> Addr(g, "timeframes", 0, 0)])
     @@ (Addr(g, "pillars", 0, 0) :>
        [type |-> "Array", items |-> [i \in DOMAIN P |-> Addr(g, "pillar", i, 0)]])
     @@ (Addr(g, "timeframes", 0, 0) :>
        [type |-> "Array", items |-> [j \in DOMAIN T |-> Addr(g, "timeframe", j, 0)]])
     @@ [a \in {Addr(g, "pillar", i, 0) : i \in DOMAIN P} |->
           LET i == CHOOSE i \in DOMAIN P : a = Addr(g, "pillar", i, 0)
           IN [type |-> "Pillar", id |-> P[i].id, name |-> P[i].name]]
     @@ [a \in {Addr(g, "timeframe", j, 0) : j \in DOMAIN T} |->
           LET j == CHOOSE j \in DOMAIN T : a = Addr(g, "timeframe", j, 0)
           IN [type |-> "Timeframe", id |-> T[j].id, title |-> T[j].title,
               deliverables |-> Addr(g, "deliverables", j, 0)]]
     @@ [a \in {Addr(g, "deliverables", j, 0) : j \in DOMAIN T} |->
           LET j == CHOOSE j \in DOMAIN T : a = Addr(g, "deliverables", j, 0)
           IN [type |-> "Object",
               keys |-> [key \in DOMAIN T[j].deliverables |-> Addr(g, "tasks", j, KeyNo(key))]]]
     @@ [a \in {Addr(g, "tasks", jk[1], jk[2]) : jk \in JK} |->
           LET jk == CHOOSE jk \in JK : a = Addr(g, "tasks", jk[1], jk[2])
           IN [type |-> "Array", items |-> T[jk[1]].deliverables[FormKeys[jk[2]]]]]

\* every object reachable from the form's record at r
FormReach(h, r) ==
  IF r = NullAddr THEN {}
  ELSE LET P == Items(h, h[r].pillars)
           T == Items(h, h[r].timeframes)
       IN {r, h[r].pillars, h[r].timeframes}
          \cup {P[i] : i \in DOMAIN P}
          \cup {T[j] : j \in DOMAIN T}
          \cup {h[T[j]].deliverables : j \in DOMAIN T}
          \cup UNION {{h[h[T[j]].deliverables].keys[key] :
                         key \in DOMAIN h[h[T[j]].deliverables].keys} : j \in DOMAIN T}

FormCollect(h, roots) ==
  LET live == UNION {FormReach(h, r) : r \in roots}
  IN [a \in live |-> h[a]]

\* value.split('\n'): the pieces between the line breaks, empty ones included
RECURSIVE Split(_)
Split(value) ==
  LET breaks == {i \in DOMAIN value : value[i] = "\n"}
  IN IF breaks = {} THEN <<value>>
     ELSE <<SubSeq(value, 1, Least(breaks) - 1)>>
          \o Split(SubSeq(value, Least(breaks) + 1, Len(value)))

\* lines.filter(line => line.trim() !== '')
RECURSIVE NonBlankLines(_)
NonBlankLines(lines) ==
  IF lines = <<>> THEN <<>>
  ELSE (IF Trim(Head(lines)) # <<>> THEN <<Head(lines)>> ELSE <<>>)
       \o NonBlankLines(Tail(lines))

\* {...prev, [field]: value}: a new record object, every other field copied
\* as the reference it is
handleDataChange(h, prev, field, value) ==
  LET new == Addr(FreshGen(h), "root", 0, 0)
  IN [heap |-> h @@ (new :> [h[prev] EXCEPT ![field] = value]), ret |-> new]

\* [...roadmapData.pillars]: a new array holding the same pillar objects
SpreadArray(h, arr, g, kind) ==
  h @@ (Addr(g, kind, 0, 0) :> [type |-> "Array", items |-> Items(h, arr)])

\* newPillars[index].name = newName, then handleDataChange('pillars', newPillars)
handlePillarNameChange(h, prev, index, newName) ==
  LET g == FreshGen(h)
      h1 == SpreadArray(h, h[prev].pillars, g, "pillars")
      newPillars == Addr(g, "pillars", 0, 0)
      pillar == Items(h1, newPillars)[index + 1]
      h2 == [h1 EXCEPT ![pillar].name = newName]
      new == Addr(g, "root", 0, 0)
  IN [heap |-> h2 @@ (new :> [h2[prev] EXCEPT !.pillars = newPillars]), ret |-> new]

\* newTimeframes[index].title = newTitle, then handleDataChange('timeframes', newTimeframes)
handleTimeframeTitleChange(h, prev, index, newTitle) ==
  LET g == FreshGen(h)
      h1 == SpreadArray(h, h[prev].timeframes, g, "timeframes")
      newTimeframes == Addr(g, "timeframes", 0, 0)
      timeframe == Items(h1, newTimeframes)[index + 1]
      h2 == [h1 EXCEPT ![timeframe].title = newTitle]
      new == Addr(g, "root", 0, 0)
  IN [heap |-> h2 @@ (new :> [h2[prev] EXCEPT !.timeframes = newTimeframes]), ret |-> new]

\* timeframe.deliverables[pillarId] = lines, on the deep copy
handleDeliverableChange(h, prev, timeframeId, pillarId, value) ==
  LET g == FreshGen(h)
      h1 == h @@ FormParse(FormStringify(h, prev), g)
      newData == Addr(g, "root", 0, 0)
      T == Items(h1, h1[newData].timeframes)
      j == FindIndex({j \in DOMAIN T : h1[T[j]].id = timeframeId})
      lines == NonBlankLines(Split(value))
      tasks == Addr(g, "tasks", j, KeyNo(pillarId))
      map == h1[T[j]].deliverables
  IN IF j = Undefined THEN [heap |-> h1, ret |-> newData]
     ELSE [heap |-> [a \in DOMAIN h1 \cup {tasks} |->
                       IF a = tasks THEN [type |-> "Array", items |-> lines]
                       ELSE IF a = map
                            THEN [h1[a] EXCEPT !.keys =
                                    [key \in DOMAIN h1[a].keys \cup {pillarId} |->
                                       IF key = pillarId THEN tasks ELSE h1[a].keys[key]]]
                            ELSE h1[a]],
           ret |-> newData]

FormTitles == {"T"}
FormNames == {"X"}
FormTimeframeIds == {"t1", "t2", "t9"}
FormPillarIds == {"p1", "p9"}
FormValues == {<<>>, <<"a", "\n", "b">>, <<" ", "\n", "\n", "a", " ">>}

InitForm ==
  /\ heap = FormParse(initialRoadmapData, 0)
  /\ form = [mounted |-> TRUE, roadmapData |-> Addr(0, "root", 0, 0)]
  /\ localData = NullAddr
  /\ prevData = NullAddr
  /\ prevJson = NoJson
  /\ lastEdit = NoEdit
  /\ edits = 0
  /\ colorCall = NoCall
  /\ colorRet = NoColor
  /\ startJson = NoJson
  /\ parse = NoParse /\ queue = NoQueue /\ cell = NoCell /\ app = NoApp /\ canvas = NoCanvas

\* the state update of one handler run: the record before it stays held by
\* whoever read it (the render before, the infographic request)
SetRoadmapData(out) ==
  /\ prevData' = form.roadmapData
  /\ prevJson' = FormStringify(heap, form.roadmapData)
  /\ form' = [form EXCEPT !.roadmapData = out.ret]
  /\ heap' = FormCollect(out.heap, {out.ret, form.roadmapData})
  /\ edits' = edits + 1
  /\ UNCHANGED <<localData, lastEdit, colorCall, colorRet, startJson, parse, app, queue, cell, canvas>>

TitleChange(field, value) ==
  /\ form.mounted /\ edits < MaxEdits
  /\ SetRoadmapData(handleDataChange(heap, form.roadmapData, field, value))

PillarNameChange(index, newName) ==
  /\ form.mounted /\ edits < MaxEdits
  /\ Defined(Items(heap, heap[form.roadmapData].pillars), index)
  /\ SetRoadmapData(handlePillarNameChange(heap, form.roadmapData, index, newName))

TimeframeTitleChange(index, newTitle) ==
  /\ form.mounted /\ edits < MaxEdits
  /\ Defined(Items(heap, heap[form.roadmapData].timeframes), index)
  /\ SetRoadmapData(handleTimeframeTitleChange(heap, form.roadmapData, index, newTitle))

DeliverableChange(timeframeId, pillarId, value) ==
  /\ form.mounted /\ edits < MaxEdits
  /\ SetRoadmapData(handleDeliverableChange(heap, form.roadmapData, timeframeId, pillarId, value))

NextForm ==
  \/ \E field \in {"title", "subtitle"}, value \in FormTitles : TitleChange(field, value)
  \/ \E index \in 0..3, newName \in FormNames : PillarNameChange(index, newName)
  \/ \E index \in 0..1, newTitle \in FormTitles : TimeframeTitleChange(index, newTitle)
  \/ \E timeframeId \in FormTimeframeIds, pillarId \in FormPillarIds, value \in FormValues :
       DeliverableChange(timeframeId, pillarId, value)

SpecForm == InitForm /\ [][NextForm]_vars

\* C15: after any mutator the record held before still reads as it did, and
\* the new record shares no object with it.
C15_MutatorsLeaveThePreviousRecordAlone ==
  (form.mounted /\ edits > 0) =>
     /\ FormStringify(heap, prevData) = prevJson
     /\ FormReach(heap, prevData) \cap FormReach(heap, form.roadmapData) = {}

(***************************************************************************)
(* EditableDeliverable: one task shown as a span, edited in an input. The  *)
(* handlers of the input are those of the last render: they read the text, *)
(* isEditing and editText of that render. React renders again after every  *)
(* event handler that changed state, so the next event of the user meets   *)
(* the new handlers; the one event that can come sooner is the blur the    *)
(* browser sends to a focused input when that render takes it away.        *)
(***************************************************************************)
MaxSessions == 2

\* the task texts a cell may start from, and what the user may type
CellTexts == {<<"a">>, <<"b">>, <<" ", "a">>}
TypedTexts == {<<>>, <<" ">>, <<"a">>, <<"b">>, <<"b", " ">>}

\* state was set, or the parent holds a new text: a render is due
RenderDue(c) ==
  \/ c.nextEditing # c.isEditing
  \/ c.nextEditText # c.editText
  \/ c.parentText # c.text

\* onSave(newText) => onEdit(timeframe.id, pillar.id, taskIndex, newText):
\* the parent will pass newText as the text of this task; saves counts the
\* calls within the editing session, saved is the argument of the last one
onSave(c, newText) ==
  [c EXCEPT !.parentText = newText, !.saves = @ + 1, !.saved = newText]

\* handleSave, with the editText and text of the render c shows; commit
\* records the draft and the text of the call
handleSave(c) ==
  LET trimmed == Trim(c.editText)
      saved == IF trimmed # <<>> /\ trimmed # c.text THEN onSave(c, trimmed) ELSE c
  IN [saved EXCEPT !.nextEditing = FALSE,
                   !.commit = [called |-> TRUE, draft |-> c.editText, text |-> c.text,
                               saves |-> saved.saves - c.saves]]

NoCommit == [called |-> FALSE, draft |-> <<>>, text |-> <<>>, saves |-> 0]

InitCell ==
  /\ \E text \in CellTexts :
       cell = [mounted |-> TRUE, text |-> text, isEditing |-> FALSE, editText |-> text,
               nextEditing |-> FALSE, nextEditText |-> text, parentText |-> text,
               focused |-> FALSE, saves |-> 0, sessions |-> 0,
               saved |-> <<>>, commit |-> NoCommit, escaped |-> FALSE]
  /\ heap = <<>>
  /\ localData = NullAddr
  /\ prevData = NullAddr
  /\ prevJson = NoJson
  /\ lastEdit = NoEdit
  /\ edits = 0
  /\ colorCall = NoCall
  /\ colorRet = NoColor
  /\ startJson = NoJson
  /\ parse = NoParse /\ queue = NoQueue /\ form = NoForm /\ app = NoApp /\ canvas = NoCanvas

CellOnly == UNCHANGED <<heap, localData, prevData, prevJson, lastEdit, edits, colorCall,
                        colorRet, startJson, parse, app, queue, form, canvas>>

\* span onClick: setIsEditing(true); an editing session begins
Click ==
  /\ cell.mounted /\ ~cell.isEditing /\ ~RenderDue(cell)
  /\ cell.sessions < MaxSessions
  /\ cell' = [cell EXCEPT !.nextEditing = TRUE, !.saves = 0, !.sessions = @ + 1,
                          !.saved = <<>>, !.commit = NoCommit, !.escaped = FALSE]
  /\ CellOnly

\* input onChange: setEditText(e.target.value)
Type(value) ==
  /\ cell.mounted /\ cell.isEditing /\ cell.focused /\ ~RenderDue(cell)
  /\ cell' = [cell EXCEPT !.nextEditText = value]
  /\ CellOnly

\* input onKeyDown, Enter: handleSave()
KeyEnter ==
  /\ cell.mounted /\ cell.isEditing /\ cell.focused /\ ~RenderDue(cell)
  /\ cell' = handleSave(cell)
  /\ CellOnly

\* input onKeyDown, Escape: setEditText(text); setIsEditing(false)
KeyEscape ==
  /\ cell.mounted /\ cell.isEditing /\ cell.focused /\ ~RenderDue(cell)
  /\ cell' = [cell EXCEPT !.nextEditText = cell.text, !.nextEditing = FALSE,
                          !.escaped = TRUE]
  /\ CellOnly

\* input onBlur: handleSave(). The user leaves the input, or the render that
\* is due takes the focused input away and the browser sends it a blur.
Blur ==
  /\ cell.mounted /\ cell.isEditing /\ cell.focused
  /\ ~RenderDue(cell) \/ ~cell.nextEditing
  /\ cell' = [handleSave(cell) EXCEPT !.focused = FALSE]
  /\ CellOnly

\* the render that is due, then its effects: focus the new input, and
\* setEditText(text) when the text prop changed
RenderCell ==
  /\ cell.mounted /\ RenderDue(cell)
  /\ LET editText == IF cell.parentText # cell.text THEN cell.parentText
                     ELSE cell.nextEditText
     IN cell' = [cell EXCEPT !.text = cell.parentText,
                             !.isEditing = cell.nextEditing,
                             !.editText = editText,
                             !.nextEditText = editText,
                             !.focused = cell.nextEditing]
  /\ CellOnly

NextCell ==
  \/ Click
  \/ \E value \in TypedTexts : Type(value)
  \/ KeyEnter
  \/ KeyEscape
  \/ Blur
  \/ RenderCell

SpecCell == InitCell /\ [][NextCell]_vars

\* C16: within one editing session of a cell (click, type, commit by Enter
\* or by blur) onSave, and so onEdit, is called at most once, also when the
\* blur of the input follows the Enter before the next render.
C16_OnSaveFiresOncePerSession ==
  cell.mounted => cell.saves <= 1

\* the session under the claim's premise that parseRoadmapText settles: a
\* promise that is pending settles at some time
SpecSessionLive ==
  /\ SpecSession
  /\ WF_vars(\E provider \in Providers, keysSet \in BOOLEAN, responseOk \in BOOLEAN,
                hasContent \in BOOLEAN, reply \in SessionReplies :
               ParseSettles(provider, keysSet, responseOk, hasContent, reply))

\* the step in which a pending promise of parseRoadmapText settles
Settles == app.mounted /\ app'.mounted /\ app'.inFlight < app.inFlight

(***************************************************************************)
(* C21. Every parse that handleGenerateRoadmap starts leaves the loading   *)
(* state when parseRoadmapText settles: resolved, isLoading is false, the  *)
(* record is the parse result and there is no error; rejected, isLoading   *)
(* is false, the error is set and the record is unset. At most one parse   *)
(* is pending at any time, and it is pending exactly while isLoading.      *)
(***************************************************************************)
C21_EveryParseLeavesLoading ==
  /\ [](app.mounted => (app.inFlight <= 1 /\ (app.isLoading <=> app.inFlight = 1)))
  /\ [][Settles =>
          /\ ~app'.isLoading
          /\ app'.outcome = "resolved" =>
               /\ app'.roadmapData # NullAddr
               /\ Stringify(heap', app'.roadmapData) = startJson'
               /\ app'.error = ""
          /\ app'.outcome = "rejected" =>
               /\ app'.roadmapData = NullAddr
               /\ app'.error # ""]_vars
  /\ (app.mounted /\ app.isLoading) ~> (app.mounted /\ ~app.isLoading)

\* a second parse of the session has resolved and its record is shown
C21_Witness ==
  /\ app.mounted /\ app.parses = 2 /\ app.outcome = "resolved"
  /\ app.inFlight = 0 /\ ~app.isLoading
  /\ app.roadmapData # NullAddr /\ edits = 0
  /\ app.discarded # NoJson

\* the step in which a blank text is submitted
SubmitsBlank ==
  app.mounted /\ app'.mounted /\ app'.parses = app.parses + 1 /\ Trim(app'.submitted) = <<>>

(***************************************************************************)
(* C22. Submitting a text that is empty or only whitespace sets the error  *)
(* 'Please paste some roadmap text.' and nothing else: parseRoadmapText is *)
(* not called, isLoading stays false, and the record held and the saved    *)
(* sourceText are as before.                                               *)
(***************************************************************************)
C22_BlankSubmitOnlySetsTheError ==
  [][SubmitsBlank =>
       /\ app'.error = "Please paste some roadmap text."
       /\ app'.inFlight = app.inFlight
       /\ ~app'.isLoading /\ ~app.isLoading
       /\ app'.roadmapData = app.roadmapData
       /\ app'.sourceText = app.sourceText
       /\ UNCHANGED <<heap, localData, startJson>>]_vars

\* a whitespace-only text was submitted in a session that keeps the source
\* text of a parse made before
C22_Witness ==
  /\ app.mounted /\ app.parses = 2 /\ app.submitted = <<" ">>
  /\ app.error = "Please paste some roadmap text."
  /\ app.sourceText # <<>>

(***************************************************************************)
(* The onEdit calls the views can issue: one per task they display, made   *)
(* by the onSave of its EditableDeliverable. A call is recorded with the   *)
(* tasks array the task is displayed from.                                 *)
(***************************************************************************)
\* PillarView: onSave={(newText) => onEdit(timeframe.id, pillar.id, taskIndex, newText)}
PillarViewCalls(h, data) ==
  LET columns == PillarView(h, data)
  IN UNION {UNION {{[timeframeId |-> h[b.timeframe].id, pillarId |-> h[columns[i].pillar].id,
                     taskIndex |-> n - 1, tasks |-> b.tasks] :
                      n \in DOMAIN Items(h, b.tasks)} :
                   b \in {columns[i].blocks[k] : k \in DOMAIN columns[i].blocks}} :
            i \in DOMAIN columns}

\* TimelineView: onSave={(newText) => onEdit(timeframe.id, p.pillar.id, taskIndex, newText)}
TimelineViewCalls(h, data) ==
  LET timeframes == timeframesWithPillars(h, data)
  IN UNION {UNION {{[timeframeId |-> timeframes[j].id, pillarId |-> h[p.pillar].id,
                     taskIndex |-> n - 1, tasks |-> p.tasks] :
                      n \in DOMAIN Items(h, p.tasks)} :
                   p \in {timeframes[j].deliverablesByPillar[k] :
                            k \in DOMAIN timeframes[j].deliverablesByPillar}} :
            j \in DOMAIN timeframes}

\* the calls of a view that carry the address of the last edit
Addressed(calls) ==
  {c \in calls : /\ c.timeframeId = lastEdit.timeframeId
                 /\ c.pillarId = lastEdit.pillarId
                 /\ c.taskIndex = lastEdit.taskIndex}

DistinctIds(items) ==
  \A i, j \in DOMAIN items : items[i].id = items[j].id => i = j

\* the last edit was a call one of the views issues for the record it was
\* applied to, and that record has distinct timeframe ids and pillar ids
EditIssuedByAView ==
  /\ Edited
  /\ DistinctIds(prevJson.timeframes) /\ DistinctIds(prevJson.pillars)
  /\ Addressed(PillarViewCalls(heap, prevData) \cup TimelineViewCalls(heap, prevData)) # {}

\* the tasks array of the group the last edit's address leads to, in the
\* record it was applied to
TargetTasksArray ==
  LET t == Items(heap, heap[prevData].timeframes)[TargetTimeframe]
  IN heap[Items(heap, heap[t].deliverables)[TargetGroup]].tasks

(***************************************************************************)
(* C23. With pairwise distinct timeframe ids and pairwise distinct pillar  *)
(* ids, an onEdit call that either view issues for a task it displays      *)
(* addresses an existing timeframe, group and task index; handleEdit       *)
(* overwrites exactly the displayed task, without creating a group or      *)
(* dropping the write, and both views show newText for that task after.    *)
(***************************************************************************)
C23_ViewEditsHitTheDisplayedTask ==
  EditIssuedByAView =>
    /\ TargetTaskExists
    /\ \A c \in Addressed(PillarViewCalls(heap, prevData) \cup TimelineViewCalls(heap, prevData)) :
         c.tasks = TargetTasksArray
    /\ Shown = [prevJson EXCEPT
                  !.timeframes[TargetTimeframe].deliverables[TargetGroup].tasks[lastEdit.taskIndex + 1] =
                     lastEdit.newText]
    /\ \E c \in Addressed(PillarViewCalls(heap, localData)) :
         Items(heap, c.tasks)[lastEdit.taskIndex + 1] = lastEdit.newText
    /\ \E c \in Addressed(TimelineViewCalls(heap, localData)) :
         Items(heap, c.tasks)[lastEdit.taskIndex + 1] = lastEdit.newText

\* a view issued the edit for a task of a pillar that has two groups in the
\* timeframe, and the task held another text before
C23_Witness ==
  /\ EditIssuedByAView
  /\ TargetTasks[lastEdit.taskIndex + 1] # lastEdit.newText
  /\ LET D == prevJson.timeframes[TargetTimeframe].deliverables
     IN Cardinality({k \in DOMAIN D : D[k].pillarId = lastEdit.pillarId}) = 2

Trimmed(text) == text # <<>> /\ Trim(text) = text

(***************************************************************************)
(* C24. The inline editor calls onSave only with a trimmed, non-empty text *)
(* that differs from the task's current text. Committing a draft whose     *)
(* trimmed form is empty or equal to the current text, or pressing Escape, *)
(* which also restores the draft to the current text, leaves editing mode  *)
(* without calling onSave. No task becomes an empty or whitespace-only     *)
(* string through inline edits.                                            *)
(***************************************************************************)
C24_OnSaveOnlyWithANewTrimmedText ==
  cell.mounted =>
    /\ cell.saves > 0 => (Trimmed(cell.saved) /\ cell.saved # cell.commit.text)
    /\ (cell.commit.called /\ Trim(cell.commit.draft) \in {<<>>, cell.commit.text}) =>
         (cell.commit.saves = 0 /\ ~cell.nextEditing)
    /\ cell.escaped => (cell.saves = 0 /\ ~cell.nextEditing /\ cell.nextEditText = cell.text)
    /\ Trim(cell.parentText) # <<>>

(***************************************************************************)
(* EditorCanvas with its view mode: the view shown is PillarView or        *)
(* TimelineView of localData, the edits are those the view shown issues.   *)
(***************************************************************************)
MaxSwitches == 2

ViewModes == {"pillar", "timeline"}

\* const ViewComponent = viewMode === 'pillar' ? PillarView : TimelineView;
\* <ViewComponent data={localData} onEdit={handleEdit} />: the onEdit calls
\* the view shown can issue
ViewComponentCalls(h, data, viewMode) ==
  IF viewMode = "pillar" THEN PillarViewCalls(h, data) ELSE TimelineViewCalls(h, data)

\* canvas also records the view mode the last edit was made in and how
\* many times a view mode button was pressed
InitCanvas ==
  /\ \E v \in InitialRecords : heap = ParseJSON(v, 0) /\ startJson = v
  /\ localData = Addr(0, "root", 0, 0)
  /\ canvas = [mounted |-> TRUE, viewMode |-> "pillar", editedIn |-> "none", switches |-> 0]
  /\ prevData = NullAddr
  /\ prevJson = NoJson
  /\ lastEdit = NoEdit
  /\ edits = 0
  /\ colorCall = NoCall
  /\ colorRet = NoColor
  /\ parse = NoParse /\ app = NoApp /\ queue = NoQueue /\ cell = NoCell /\ form = NoForm

\* the view mode buttons: onClick={() => setViewMode(mode)}
SetViewMode(mode) ==
  /\ canvas.mounted /\ canvas.switches < MaxSwitches
  /\ canvas' = [canvas EXCEPT !.viewMode = mode, !.switches = @ + 1]
  /\ UNCHANGED <<heap, localData, prevData, prevJson, lastEdit, edits, colorCall, colorRet,
                 startJson, parse, app, queue, cell, form>>

\* an inline edit committed in the view shown: onEdit with the address of
\* the task, setLocalData(updater)
CanvasEdit(call, newText) ==
  LET r == handleEdit(Collect(heap, {localData}), localData,
                      call.timeframeId, call.pillarId, call.taskIndex, newText)
  IN /\ canvas.mounted /\ edits < MaxEdits
     /\ call \in ViewComponentCalls(heap, localData, canvas.viewMode)
     /\ edits' = edits + 1
     /\ heap' = Collect(r.heap, {localData, r.ret})
     /\ localData' = r.ret
     /\ prevData' = localData
     /\ prevJson' = Stringify(heap, localData)
     /\ lastEdit' = [timeframeId |-> call.timeframeId, pillarId |-> call.pillarId,
                     taskIndex |-> call.taskIndex, newText |-> newText, times |-> 1]
     /\ canvas' = [canvas EXCEPT !.editedIn = canvas.viewMode]
     /\ UNCHANGED <<colorCall, colorRet, startJson, parse, app, queue, cell, form>>

NextCanvas ==
  \/ \E mode \in ViewModes : SetViewMode(mode)
  \/ \E call \in ViewComponentCalls(heap, localData, canvas.viewMode), newText \in NewTexts :
       CanvasEdit(call, newText)

SpecCanvas == InitCanvas /\ [][NextCanvas]_vars

\* the step of a view mode button
Switches == canvas.mounted /\ canvas'.mounted /\ canvas'.switches # canvas.switches

(***************************************************************************)
(* C25. Switching the view mode between 'pillar' and 'timeline' leaves the *)
(* editor's record localData unchanged; both views are rendered from that  *)
(* record, so an edit committed in one view is shown by the other view     *)
(* after switching.                                                        *)
(***************************************************************************)
C25_SwitchingViewsKeepsTheRecord ==
  /\ [][Switches => (localData' = localData /\ Stringify(heap', localData') = Shown)]_vars
  /\ []((canvas.mounted /\ Edited) =>
          \E c \in Addressed(ViewComponentCalls(heap, localData, canvas.viewMode)) :
            Items(heap, c.tasks)[lastEdit.taskIndex + 1] = lastEdit.newText)

\* an edit committed in the pillar view changed a task, and the timeline
\* view is shown
C25_Witness ==
  /\ canvas.mounted /\ Edited
  /\ canvas.editedIn = "pillar" /\ canvas.viewMode = "timeline"
  /\ TargetTasks[lastEdit.taskIndex + 1] # lastEdit.newText

====
